---- MODULE Spec2Model ----
(***************************************************************************)
(* Model of the question-traversal engine of tests/coding_questions.spec.ts *)
(* (test 'Solve all coding questions'), the report ledger of               *)
(* utils/reportGenerator.ts and the classifier client of                   *)
(* utils/geminiAnalyzer.ts.                                                *)
(*                                                                         *)
(* The test body is one async function.  Node runs it to the next await    *)
(* without interruption; a SIGINT/SIGTERM handler can only run while the   *)
(* function is suspended at an await.  Every value of pc below is such an  *)
(* await, and every action is the code from one await to the next.         *)
(***************************************************************************)
EXTENDS Integers, Sequences, FiniteSets, TLC

\* ------------------------------------------------------------------ bounds
\* Longest window of ordinals [START_FROM, START_FROM + MaxSpan - 1] a run of
\* the model may cover.
MaxSpan == 2

\* ------------------------------------------------------- program constants
maxRetries == 2
DefaultTotal == 90

StartChoices == {1, 29}
RunnerCounts == {1, 2}
Statuses == {"PASSED", "FAILED", "SKIPPED"}
CodeCaptured == "code"
CodeNotCaptured == "Code not captured"
CodeNotCapturedMulti == "Code not captured from multiple files"
NavigationFailed == "Navigation failed"
RetryExhausted == "Retry exhausted"
SolveCodes == {CodeCaptured, CodeNotCaptured, CodeNotCapturedMulti}
ErrMsgs == {"RUN button not found with any selector", "Target closed"}
NoErr == "none"
NoVerdict == "none"

Min(a, b) == IF a <= b THEN a ELSE b
\* Math.ceil(a / b) for b > 0
Ceil(a, b) == -((-a) \div b)

VARIABLES
    pc,              \* the await the test body is suspended at
    i,               \* loop variable of the main loop
    retryCount,      \* retryCount of the retry loop
    results,         \* reportGenerator.results, the ledger
    report,          \* rows of the report file last written
    reportWritten,   \* a report file has been written
    reportGenerated, \* the flag reportGenerated
    exit,            \* "running", or how the process ended
    endFlushes,      \* history: which end-of-run flushes have run
    summaries,       \* history: number of summaries printed
    attempts,        \* history: solveQuestion calls made for ordinal i
    prev,            \* history: what followed the last solveQuestion call
    lastErr,         \* history: error message of the last solveQuestion call
    glitch,          \* history: the page driver misreported an existing marker or threw
    sinceCooldown,   \* history: analyses awaited since the last rate-limit pause
    K,               \* the page exposes the markers Q1..QK
    START_FROM, END_TO, RUNNERS, RUNNER_ID,
    skipAI,          \* project name is 'no-ai'
    apiKey,          \* process.env.GEMINI_API_KEY (not read when skipAI)
    totalQuestions, effectiveStartFrom, effectiveEndTo,
    analyzer,        \* one call of GeminiAnalyzer.analyzeQuestionAndCode
    race,            \* calls of analyzeQuestionAndCode the test body left behind
    session,         \* the runners' start-up around the shared session file
    plan,            \* the ordinal range each runner computed for itself
    fleet,           \* the runners of one run: ledgers, report files, merges
    summary,         \* what getSummary returned
    page             \* the page a function of the test reads, and its result

vars == <<pc, i, retryCount, results, report, reportWritten, reportGenerated,
          exit, endFlushes, summaries, attempts, prev, lastErr, glitch,
          sinceCooldown, K,
          START_FROM,
          END_TO, RUNNERS, RUNNER_ID, skipAI, apiKey, totalQuestions,
          effectiveStartFrom, effectiveEndTo, analyzer, race, session, plan, fleet,
          summary, page>>

config == <<K, START_FROM, END_TO, RUNNERS, RUNNER_ID, skipAI, apiKey>>

\* values of GEMINI_API_KEY: unset, the placeholder of the README (a key the
\* service rejects), a key the service accepts
KeyMissing == ""
KeyPlaceholder == "your_api_key_here"
KeyValid == "valid key"
ApiKeys == {KeyMissing, KeyPlaceholder, KeyValid}

\* the constructor made a client: this.genAI is not null
hasKey == apiKey # KeyMissing

range == <<totalQuestions, effectiveStartFrom, effectiveEndTo>>

\* ------------------------------------------ the shared session file
\* number of runner processes of the start-up model
SessionRunners == 3
Runners == 1..SessionRunners

\* no runner has started; the file auth/user.json may be left from a past run
StartUp(exists) ==
    [file |-> exists,
     pc |-> [r \in Runners |-> "fixture"],
     loaded |-> [r \in Runners |-> FALSE],
     logins |-> {}, wrote |-> {}, timedOut |-> {}, expired |-> {}]

NoSession == StartUp(FALSE)

\* storageState fixture: a runner 2+ polls for the file for up to 5 minutes,
\* then the file is loaded if it exists
fixture(ss, r) ==
    [ss EXCEPT !.loaded[r] = ss.file,
               !.pc[r] = IF SessionRunners > 1 /\ r > 1 THEN "wait" ELSE "verify"]

\* login check of the test body; isLoggedIn needs a loaded session
verifyLogin(ss, r, isLoggedIn) ==
    IF isLoggedIn THEN [ss EXCEPT !.pc[r] = "traverse"]
    ELSE IF SessionRunners > 1 /\ r > 1 THEN [ss EXCEPT !.pc[r] = "loginWait"]
    ELSE [ss EXCEPT !.pc[r] = "login"]

\* mutant: a runner 2+ logs in itself although the session file is there
afterLoginWait_AlwaysLogin(ss, r, sessionReady) ==
    IF sessionReady THEN [ss EXCEPT !.pc[r] = "login"]
    ELSE [ss EXCEPT !.pc[r] = "login", !.timedOut = @ \cup {r}]

\* loginToApp of a runner 2+ after waitForSessionFile returned sessionReady
afterLoginWait(ss, r, sessionReady) ==
    IF sessionReady THEN [ss EXCEPT !.pc[r] = "traverse"]
    ELSE [ss EXCEPT !.pc[r] = "login", !.timedOut = @ \cup {r}]

\* how the login flow of loginToApp went: Dashboard was visible at once, or
\* the poll saw a dashboard URL, or the 180 s of the poll ran out
LoginOutcomes == {"visible", "reached", "expired"}

\* the login flow of loginToApp: the session is saved whether the dashboard
\* was already visible or the manual login was waited for
login(ss, r, outcome) ==
    [ss EXCEPT !.file = TRUE,
               !.wrote = @ \cup {r},
               !.logins = IF outcome = "visible" THEN @ ELSE @ \cup {r},
               !.expired = IF outcome = "expired" THEN @ \cup {r} ELSE @,
               !.pc[r] = "traverse"]

\* ------------------------------------------------------- GeminiAnalyzer
\* Strings the analyzer inspects are sequences of characters.
ToLower ==
    [c \in {"A", "B", "C", "D", "E", "F", "G", "H", "I", "J", "K", "L", "M",
            "N", "O", "P", "Q", "R", "S", "T", "U", "V", "W", "X", "Y", "Z"} |->
        CASE c = "A" -> "a" [] c = "B" -> "b" [] c = "C" -> "c" [] c = "D" -> "d"
          [] c = "E" -> "e" [] c = "F" -> "f" [] c = "G" -> "g" [] c = "H" -> "h"
          [] c = "I" -> "i" [] c = "J" -> "j" [] c = "K" -> "k" [] c = "L" -> "l"
          [] c = "M" -> "m" [] c = "N" -> "n" [] c = "O" -> "o" [] c = "P" -> "p"
          [] c = "Q" -> "q" [] c = "R" -> "r" [] c = "S" -> "s" [] c = "T" -> "t"
          [] c = "U" -> "u" [] c = "V" -> "v" [] c = "W" -> "w" [] c = "X" -> "x"
          [] c = "Y" -> "y" [] c = "Z" -> "z"]

toLowerCase(t) ==
    [k \in 1..Len(t) |-> IF t[k] \in DOMAIN ToLower THEN ToLower[t[k]] ELSE t[k]]

includes(t, sub) ==
    \E k \in 0..(Len(t) - Len(sub)) : SubSeq(t, k + 1, k + Len(sub)) = sub

\* the substrings shouldRetry looks for
RetryKeywords == {
    <<"5", "0", "3">>,
    <<"s", "e", "r", "v", "i", "c", "e", " ", "u", "n", "a", "v", "a", "i",
      "l", "a", "b", "l", "e">>,
    <<"o", "v", "e", "r", "l", "o", "a", "d", "e", "d">>,
    <<"4", "2", "9">>,
    <<"r", "a", "t", "e", " ", "l", "i", "m", "i", "t">>,
    <<"t", "i", "m", "e", "o", "u", "t">>,
    <<"e", "c", "o", "n", "n", "r", "e", "f", "u", "s", "e", "d">> }

\* messages of the errors the external call is made to fail with
ServiceUnavailable ==
    <<"5", "0", "3", " ", "S", "e", "r", "v", "i", "c", "e", " ", "U", "n",
      "a", "v", "a", "i", "l", "a", "b", "l", "e">>

RateLimited ==
    <<"R", "a", "t", "e", " ", "L", "i", "m", "i", "t", " ", "e", "x", "c",
      "e", "e", "d", "e", "d">>

\* the message of the 45 s timeout raced against the call
CallTimeout ==
    <<"G", "e", "m", "i", "n", "i", " ", "A", "P", "I", " ", "c", "a", "l",
      "l", " ", "t", "i", "m", "e", "o", "u", "t", " ", "a", "f", "t", "e",
      "r", " ", "4", "5", "s">>

InvalidKey ==
    <<"A", "P", "I", " ", "k", "e", "y", " ", "n", "o", "t", " ", "v", "a",
      "l", "i", "d">>

NoMessage == <<>>

ErrorMessages ==
    {ServiceUnavailable, RateLimited, CallTimeout, InvalidKey, NoMessage}

\* lastError = null
Null == <<"null">>

AnalysisFailed ==
    <<"A", "n", "a", "l", "y", "s", "i", "s", " ", "f", "a", "i", "l", "e",
      "d", ":", " ">>

MayBeOverloaded ==
    <<".", " ", "S", "e", "r", "v", "i", "c", "e", " ", "m", "a", "y", " ",
      "b", "e", " ", "o", "v", "e", "r", "l", "o", "a", "d", "e", "d", ".">>

UnknownError ==
    <<"U", "n", "k", "n", "o", "w", "n", " ", "e", "r", "r", "o", "r">>

KeyNotConfigured ==
    <<"G", "e", "m", "i", "n", "i", " ", "a", "n", "a", "l", "y", "s", "i",
      "s", " ", "s", "k", "i", "p", "p", "e", "d", " ", "-", " ", "A", "P",
      "I", " ", "k", "e", "y", " ", "n", "o", "t", " ", "c", "o", "n", "f",
      "i", "g", "u", "r", "e", "d">>

Extracted ==
    <<"E", "x", "t", "r", "a", "c", "t", "e", "d", " ">>

Requirements ==
    <<" ", "r", "e", "q", "u", "i", "r", "e", "m", "e", "n", "t", "s">>

Digit == [n \in 0..1 |-> IF n = 0 THEN <<"0">> ELSE <<"1">>]

GeminiMaxRetries == 3
retryDelay == 2000
\* lengths of the models arrays of the analyzer's two versions
ModelCounts == {1, 3}

Pow2(n) == IF n <= 0 THEN 1 ELSE IF n = 1 THEN 2 ELSE 4

\* shouldRetry: an error without message is not transient
shouldRetry(e) ==
    IF e = Null \/ Len(e) = 0 THEN FALSE
    ELSE \E kw \in RetryKeywords : includes(toLowerCase(e), kw)

NotCalled ==
    [pc |-> "idle", nModels |-> 1, modelIdx |-> 0, attempt |-> 0,
     lastError |-> Null, requests |-> <<>>, sleeps |-> <<>>,
     status |-> "none", remarks |-> <<>>, isValid |-> FALSE,
     failures |-> 0, lastFailure |-> Null]

\* one iteration of the attempt loop up to the await of the raced call
issue(a, mi, at) ==
    [a EXCEPT !.pc = "call", !.modelIdx = mi, !.attempt = at,
              !.requests = Append(@, <<mi, at>>)]

\* return after both loops: status 'ERROR'
returnError(a) ==
    [a EXCEPT !.pc = "returned", !.status = "ERROR",
              !.remarks = AnalysisFailed
                          \o (IF a.lastError # Null THEN a.lastError
                                                    ELSE UnknownError)
                          \o MayBeOverloaded,
              !.isValid = FALSE]

\* mutant: the failure result is returned after the first model
nextModel_GiveUp(a) == returnError(a)

\* the outer loop moves to the next model, or ends
nextModel(a) ==
    IF a.modelIdx < a.nModels THEN issue(a, a.modelIdx + 1, 1)
                              ELSE returnError(a)

\* attempt++ and the test attempt <= maxRetries
nextAttempt(a) ==
    IF a.attempt + 1 <= GeminiMaxRetries THEN issue(a, a.modelIdx, a.attempt + 1)
                                         ELSE nextModel(a)

\* mutant: the catch block does not keep the error
onError_Forget(a, e) ==
    LET b == [a EXCEPT !.failures = @ + 1, !.lastFailure = e]
    IN  IF shouldRetry(e) /\ b.attempt < GeminiMaxRetries
        THEN [b EXCEPT !.pc = "sleep",
                       !.sleeps = Append(@, retryDelay * Pow2(b.attempt - 1))]
        ELSE IF b.attempt >= GeminiMaxRetries /\ b.modelIdx < b.nModels
        THEN nextModel(b)
        ELSE nextAttempt(b)

\* mutant: every retry waits retryDelay, without doubling
onError_FixedDelay(a, e) ==
    LET b == [a EXCEPT !.lastError = e, !.failures = @ + 1, !.lastFailure = e]
    IN  IF shouldRetry(e) /\ b.attempt < GeminiMaxRetries
        THEN [b EXCEPT !.pc = "sleep", !.sleeps = Append(@, retryDelay)]
        ELSE IF b.attempt >= GeminiMaxRetries /\ b.modelIdx < b.nModels
        THEN nextModel(b)
        ELSE nextAttempt(b)

\* the catch block of one attempt
onError(a, e) ==
    LET b == [a EXCEPT !.lastError = e, !.failures = @ + 1, !.lastFailure = e]
    IN  IF shouldRetry(e) /\ b.attempt < GeminiMaxRetries
        THEN [b EXCEPT !.pc = "sleep",
                       !.sleeps = Append(@, retryDelay * Pow2(b.attempt - 1))]
        ELSE IF b.attempt >= GeminiMaxRetries /\ b.modelIdx < b.nModels
        THEN nextModel(b)
        ELSE nextAttempt(b)

\* the call resolved and n requirements were read from its text
onSuccess(a, n) ==
    [a EXCEPT !.pc = "returned", !.status = "SUCCESS",
              !.remarks = Extracted \o Digit[n] \o Requirements,
              !.isValid = n > 0]

\* analyzeQuestionAndCode up to its first await, or its return without a key
startAnalysis(a, nm) ==
    IF ~hasKey
    THEN [a EXCEPT !.pc = "returned", !.nModels = nm, !.status = "SKIPPED",
                   !.remarks = KeyNotConfigured, !.isValid = FALSE]
    ELSE issue([a EXCEPT !.nModels = nm], 1, 1)

\* ------------------------------------------------------------ the ledger
Result(q, st, cd, er, gm) ==
    [q |-> q, status |-> st, code |-> cd, err |-> er, gemini |-> gm]

addResult(rs, r) == Append(rs, r)

\* mutant: results.pop() removes nothing
pop_Keep(rs) == rs

pop(rs) == IF Len(rs) = 0 THEN rs ELSE SubSeq(rs, 1, Len(rs) - 1)

Last(rs) == rs[Len(rs)]

SetLastVerdict(rs, v) == [rs EXCEPT ![Len(rs)].gemini = v]

\* one row of the sheet: absent errorMessage / geminiStatus are written as ''
Row(r) ==
    [number |-> r.q, code |-> r.code, status |-> r.status,
     error |-> IF r.err = NoErr THEN "" ELSE r.err,
     gemini |-> IF r.gemini = NoVerdict THEN "" ELSE r.gemini]

Rows(rs) == [k \in 1..Len(rs) |-> Row(rs[k])]

\* ------------------------------------------------- the machine as a record
Cur ==
    [pc |-> pc, i |-> i, retryCount |-> retryCount, results |-> results,
     report |-> report, reportWritten |-> reportWritten,
     reportGenerated |-> reportGenerated, exit |-> exit,
     endFlushes |-> endFlushes, summaries |-> summaries,
     attempts |-> attempts, prev |-> prev, lastErr |-> lastErr,
     glitch |-> glitch, sinceCooldown |-> sinceCooldown]

Set(m) ==
    /\ pc' = m.pc
    /\ i' = m.i
    /\ retryCount' = m.retryCount
    /\ results' = m.results
    /\ report' = m.report
    /\ reportWritten' = m.reportWritten
    /\ reportGenerated' = m.reportGenerated
    /\ exit' = m.exit
    /\ endFlushes' = m.endFlushes
    /\ summaries' = m.summaries
    /\ attempts' = m.attempts
    /\ prev' = m.prev
    /\ lastErr' = m.lastErr
    /\ glitch' = m.glitch
    /\ sinceCooldown' = m.sinceCooldown

\* mutant: the rows are added to the rows the file already has
generateExcelReport_Appending(m) ==
    [m EXCEPT !.report = @ \o Rows(m.results), !.reportWritten = TRUE]

\* ReportGenerator.generateExcelReport: the file is rewritten from the ledger
generateExcelReport(m) ==
    [m EXCEPT !.report = Rows(m.results), !.reportWritten = TRUE]

\* an end-of-run flush with its printed summary
EndFlush(m, kind) ==
    [generateExcelReport(m) EXCEPT !.endFlushes = @ \cup {kind},
                                   !.summaries = @ + 1]

\* finally { ... }
finallyBlock(m, how) ==
    LET f == IF ~m.reportGenerated /\ Len(m.results) > 0
             THEN EndFlush(m, "finally")
             ELSE m
    IN  [f EXCEPT !.exit = how]

\* mutant: the catch block rethrows without writing the report
catchBlock_NoFlush(m) == finallyBlock(m, "exception")

\* catch (error) { ... throw error } followed by the finally block
catchBlock(m) ==
    LET c == IF Len(m.results) > 0
             THEN [EndFlush(m, "catch") EXCEPT !.reportGenerated = TRUE]
             ELSE m
    IN  finallyBlock(c, "exception")

\* the code after the main loop up to the merge step
finalReport(m) ==
    LET f == [EndFlush(m, "final") EXCEPT !.reportGenerated = TRUE]
    IN  IF RUNNERS > 1
        THEN [f EXCEPT !.pc = "mergeWait"]
        ELSE finallyBlock([f EXCEPT !.pc = "finished"], "normal")

\* mutant: the signal handler exits without writing the report
generatePartialReport_NoFlush(m) == m

\* generatePartialReport of the signal handlers
generatePartialReport(m) ==
    IF ~m.reportGenerated /\ Len(m.results) > 0
    THEN [EndFlush(m, "signal") EXCEPT !.reportGenerated = TRUE]
    ELSE m

\* mutant: the loop variable is advanced twice
loopNext_SkipOne(m) ==
    IF m.i + 2 <= effectiveEndTo
    THEN [m EXCEPT !.i = m.i + 2, !.pc = "nav"]
    ELSE finalReport([m EXCEPT !.i = m.i + 2])

\* mutant: the loop test is i < effectiveEndTo
loopNext_StrictEnd(m) ==
    IF m.i + 1 < effectiveEndTo
    THEN [m EXCEPT !.i = m.i + 1, !.pc = "nav"]
    ELSE finalReport([m EXCEPT !.i = m.i + 1])

\* i++ and the loop test
loopNext(m) ==
    IF m.i + 1 <= effectiveEndTo
    THEN [m EXCEPT !.i = m.i + 1, !.pc = "nav"]
    ELSE finalReport([m EXCEPT !.i = m.i + 1])

\* mutant: the ledger is not saved at the end of an iteration
afterClassify_NoSave(m) ==
    IF m.i < effectiveEndTo
    THEN [m EXCEPT !.pc = "advVerify"]
    ELSE loopNext(m)

\* the per-iteration save and the start of the advancement step
afterClassify(m) ==
    LET f == generateExcelReport(m)
    IN  IF f.i < effectiveEndTo
        THEN [f EXCEPT !.pc = "advVerify"]
        ELSE loopNext(f)

\* the pre-filter of the Gemini analysis
Analysable(r) ==
    /\ r.code # CodeNotCaptured
    /\ r.code # NavigationFailed
    /\ r.code # RetryExhausted

\* mutant: a record that is not analysed gets no local verdict
geminiSection_NoLocalVerdict(m) ==
    LET cur == Last(m.results) IN
    IF skipAI
    THEN afterClassify([m EXCEPT !.results = SetLastVerdict(@, "SKIPPED")])
    ELSE IF cur.gemini # NoVerdict
    THEN afterClassify(m)
    ELSE IF Analysable(cur)
    THEN [m EXCEPT !.pc = "analyze", !.sinceCooldown = @ + 1]
    ELSE afterClassify(m)

\* the Gemini section of an iteration up to the call of the analyzer
geminiSection(m) ==
    LET cur == Last(m.results) IN
    IF skipAI
    THEN afterClassify([m EXCEPT !.results = SetLastVerdict(@, "SKIPPED")])
    ELSE IF cur.gemini # NoVerdict
    THEN afterClassify(m)
    ELSE IF Analysable(cur)
    THEN [m EXCEPT !.pc = "analyze", !.sinceCooldown = @ + 1]
    ELSE afterClassify([m EXCEPT !.results = SetLastVerdict(@, "SKIPPED")])

\* mutant: a FAILED outcome is retried whether or not an exception was raised
retryDecision_OnFailed(r, rc) == r.status = "FAILED" /\ rc < maxRetries

\* mutant: the test is retryCount <= maxRetries
retryDecision_OneMore(r, rc) == r.err # NoErr /\ rc <= maxRetries

\* result.errorMessage && retryCount < maxRetries
retryDecision(r, rc) == r.err # NoErr /\ rc < maxRetries

\* mutant: the record of the last failed attempt is kept as it is
exhaustedDecision_Never(r, rc) == FALSE

\* result.errorMessage && retryCount === maxRetries
exhaustedDecision(r, rc) == r.err # NoErr /\ rc = maxRetries

\* mutant: the exhausted ordinal keeps the outcome FAILED
skipResult_Failed(q, r) ==
    Result(q, "FAILED", RetryExhausted,
           "Failed after 2 retries due to: " \o r.err, "SKIPPED")

skipResult(q, r) ==
    Result(q, "SKIPPED", RetryExhausted,
           "Failed after 2 retries due to: " \o r.err, "SKIPPED")

\* mutant: the failed attempt's record is not removed before the retry
afterSolve_NoPop(m, r) ==
    IF retryDecision(r, m.retryCount)
    THEN [m EXCEPT !.retryCount = @ + 1, !.pc = "renav",
                   !.prev = IF r.err # NoErr THEN "error" ELSE "clean"]
    ELSE IF exhaustedDecision(r, m.retryCount)
    THEN geminiSection([m EXCEPT !.results = addResult(pop(@), skipResult(m.i, r)),
                                 !.prev = "recorded"])
    ELSE geminiSection([m EXCEPT !.prev = "recorded"])

\* the retry loop's body after solveQuestion returned r (r is already in the ledger)
afterSolve(m, r) ==
    IF retryDecision(r, m.retryCount)
    THEN [m EXCEPT !.retryCount = @ + 1, !.results = pop(@), !.pc = "renav",
                   !.prev = IF r.err # NoErr THEN "error" ELSE "clean"]
    ELSE IF exhaustedDecision(r, m.retryCount)
    THEN geminiSection([m EXCEPT !.results = addResult(pop(@), skipResult(m.i, r)),
                                 !.prev = "recorded"])
    ELSE geminiSection([m EXCEPT !.prev = "recorded"])

MarkerExists(n) == n \in 1..K

\* ------------------------------------------------------- range of a runner
runnerEndTo0(total) == IF END_TO # 0 THEN Min(END_TO, total) ELSE total

questionsPerRunner(total) ==
    Ceil(runnerEndTo0(total) - START_FROM + 1, RUNNERS)

\* the range of the runner whose RUNNER_ID is id
runnerStartFrom(total, id) ==
    IF RUNNERS > 1
    THEN START_FROM + (id - 1) * questionsPerRunner(total)
    ELSE START_FROM

runnerEndTo(total, id) ==
    IF RUNNERS > 1
    THEN Min(runnerStartFrom(total, id) + questionsPerRunner(total) - 1,
             runnerEndTo0(total))
    ELSE runnerEndTo0(total)

\* no runner has computed a range
NoPlan == <<>>
\* no runner is started
NoFleet == <<>>
\* getSummary has not been called
NoSummary == <<>>
\* no page is looked at
NoPage == <<>>
\* no call of analyzeQuestionAndCode has been left behind
NoRace == [pending |-> {}, timedOut |-> {}]
NotPlanned == [planned |-> FALSE, from |-> 0, to |-> 0]

\* ------------------------------------------------------------------- Init
\* the test body before its first statement
EngineInit ==
    /\ pc = "setup"
    /\ i = 0
    /\ retryCount = 0
    /\ results = <<>>
    /\ report = <<>>
    /\ reportWritten = FALSE
    /\ reportGenerated = FALSE
    /\ exit = "running"
    /\ endFlushes = {}
    /\ summaries = 0
    /\ attempts = 0
    /\ prev = "none"
    /\ lastErr = NoErr
    /\ glitch = FALSE
    /\ sinceCooldown = 0
    /\ totalQuestions = 0
    /\ effectiveStartFrom = 0
    /\ effectiveEndTo = 0

Init ==
    /\ EngineInit
    /\ analyzer = NotCalled
    /\ race = NoRace
    /\ session = NoSession
    /\ plan = NoPlan
    /\ fleet = NoFleet
    /\ summary = NoSummary
    /\ page = NoPage
    /\ START_FROM \in StartChoices
    /\ K \in (START_FROM - 1)..(START_FROM + MaxSpan - 1)
    /\ END_TO \in {0, START_FROM, START_FROM + MaxSpan}
    /\ RUNNERS \in RunnerCounts
    /\ RUNNER_ID \in 1..RUNNERS
    /\ skipAI \in BOOLEAN
    /\ apiKey \in (IF skipAI THEN {KeyValid} ELSE ApiKeys)

Running == exit = "running"

\* ---------------------------------------------------------------- actions
\* login check, login and navigateToCodingQuestions: outside the try block
Setup ==
    /\ Running /\ pc = "setup"
    /\ \/ Set([Cur EXCEPT !.pc = "detect"])
       \/ Set([Cur EXCEPT !.exit = "exception", !.glitch = TRUE])
    /\ UNCHANGED <<config, range, analyzer, race, session, plan, fleet, summary, page>>

\* detectTotalQuestions and the range of this runner
Detect ==
    /\ Running /\ pc = "detect"
    /\ \E total \in (IF K >= 1 THEN {K} ELSE {}) \cup {DefaultTotal} :
        /\ totalQuestions' = total
        /\ effectiveStartFrom' = runnerStartFrom(total, RUNNER_ID)
        /\ effectiveEndTo' = runnerEndTo(total, RUNNER_ID)
    /\ Set([Cur EXCEPT !.pc = "startNav"])
    /\ UNCHANGED <<config, analyzer, race, session, plan, fleet, summary, page>>

\* mutant: the loop starts at START_FROM, not at this runner's first ordinal
enterLoop_FromStartFrom(m) ==
    IF START_FROM <= effectiveEndTo
    THEN [m EXCEPT !.i = START_FROM, !.pc = "solve",
                   !.retryCount = 0, !.attempts = 0, !.prev = "none",
                   !.lastErr = NoErr]
    ELSE finalReport([m EXCEPT !.i = START_FROM])

\* navigateToQuestion(effectiveStartFrom), its fallback click, and the loop entry
enterLoop(m) ==
    IF effectiveStartFrom <= effectiveEndTo
    THEN [m EXCEPT !.i = effectiveStartFrom, !.pc = "solve",
                   !.retryCount = 0, !.attempts = 0, !.prev = "none",
                   !.lastErr = NoErr]
    ELSE finalReport([m EXCEPT !.i = effectiveStartFrom])

StartNav ==
    /\ Running /\ pc = "startNav"
    /\ \/ /\ MarkerExists(effectiveStartFrom)
          /\ Set(enterLoop(Cur))
       \/ /\ MarkerExists(effectiveStartFrom)
          /\ Set(enterLoop([Cur EXCEPT !.glitch = TRUE]))
       \/ Set(catchBlock([Cur EXCEPT !.glitch = TRUE]))
    /\ UNCHANGED <<config, range, analyzer, race, session, plan, fleet, summary, page>>

\* navigateToQuestion(i) at the top of an iteration, i > effectiveStartFrom
Nav ==
    /\ Running /\ pc = "nav"
    /\ \/ /\ MarkerExists(i)
          /\ Set([Cur EXCEPT !.pc = "solve", !.retryCount = 0,
                             !.attempts = 0, !.prev = "none",
                             !.lastErr = NoErr])
       \/ Set([Cur EXCEPT !.pc = "navVerify",
                          !.glitch = @ \/ MarkerExists(i)])
       \/ Set(catchBlock([Cur EXCEPT !.glitch = TRUE]))
    /\ UNCHANGED <<config, range, analyzer, race, session, plan, fleet, summary, page>>

\* mutant: the ordinal that could not be opened is recorded as FAILED
navFailedResult_Failed(q) ==
    Result(q, "FAILED", NavigationFailed, "Failed to navigate to question", "SKIPPED")

\* the record of an ordinal whose marker exists and could not be opened
navFailedResult(q) ==
    Result(q, "SKIPPED", NavigationFailed, "Failed to navigate to question", "SKIPPED")

\* verifyNextQuestionExists(i - 1) after a failed navigation
NavVerify ==
    /\ Running /\ pc = "navVerify"
    /\ \/ /\ MarkerExists(i)
          /\ Set(loopNext(generateExcelReport(
                    [Cur EXCEPT !.results = addResult(@, navFailedResult(i))])))
       \/ Set(finalReport([Cur EXCEPT !.glitch = @ \/ MarkerExists(i)]))
    /\ UNCHANGED <<config, range, analyzer, race, session, plan, fleet, summary, page>>

\* solveQuestion(page, i, reportGenerator) and the retry loop's body
SolveOutcomes ==
    [status : Statuses, code : SolveCodes, err : {NoErr}]
        \cup [status : {"FAILED"}, code : SolveCodes, err : ErrMsgs]

SolveQuestion ==
    /\ Running /\ pc = "solve"
    /\ \E out \in SolveOutcomes :
        LET r == Result(i, out.status, out.code, out.err, NoVerdict)
            m == [Cur EXCEPT !.results = addResult(@, r), !.attempts = @ + 1,
                             !.lastErr = out.err]
        IN  Set(afterSolve(m, r))
    /\ UNCHANGED <<config, range, analyzer, race, session, plan, fleet, summary, page>>

\* navigateToQuestion(i) before a retry; its result is not read
Renav ==
    /\ Running /\ pc = "renav"
    /\ \/ Set([Cur EXCEPT !.pc = "solve",
                          !.prev = IF @ = "error" THEN "renav" ELSE "renavClean"])
       \/ Set(catchBlock([Cur EXCEPT !.glitch = TRUE]))
    /\ UNCHANGED <<config, range, analyzer, race, session, plan, fleet, summary, page>>

\* Promise.race([analyzeQuestionAndCode(...), 60 s timeout])
AnalysisStatuses ==
    IF ~hasKey THEN {"SKIPPED"}
    ELSE IF apiKey = KeyValid THEN {"SUCCESS", "ERROR"}
    ELSE {"ERROR"}

\* i % 15 === 0 && i < totalQuestions, after an analysis that resolved
pauseAfterDone(n, total) == n % 15 = 0 /\ n < total

\* i % 10 === 0, in the catch block of the analysis
pauseAfterFailed(n) == n % 10 = 0

\* mutant: the rejection of the race is not caught around the analysis
analysisFailed_Escapes(m) == catchBlock(m)

\* the catch block of the analysis: 'Analysis timeout or failed'
analysisFailed(m) ==
    LET f == [m EXCEPT !.results = SetLastVerdict(@, "ERROR")]
    IN  IF pauseAfterFailed(f.i)
        THEN [f EXCEPT !.pc = "cooldownError", !.sinceCooldown = 0]
        ELSE afterClassify(f)

\* the analysis resolved with status st
analysisDone(m, st) ==
    LET f == [m EXCEPT !.results = SetLastVerdict(@, st)]
    IN  IF pauseAfterDone(f.i, totalQuestions)
        THEN [f EXCEPT !.pc = "cooldown", !.sinceCooldown = 0]
        ELSE afterClassify(f)

\* analyzeQuestionAndCode settles before the 60 s timeout
AnalyzeSettles ==
    /\ Running /\ pc = "analyze"
    /\ \E st \in AnalysisStatuses : Set(analysisDone(Cur, st))
    /\ UNCHANGED <<config, range, analyzer, race, session, plan, fleet, summary, page>>

\* the 60 s timeout of the race rejects first
AnalyzeTimeout ==
    /\ Running /\ pc = "analyze"
    /\ Set(analysisFailed(Cur))
    /\ UNCHANGED <<config, range, analyzer, race, session, plan, fleet, summary, page>>

\* the race of analyzeQuestionAndCode against the 60 s timeout
Analyze == AnalyzeSettles \/ AnalyzeTimeout

\* the 10 s pause after every 15th ordinal, inside the try block
Cooldown ==
    /\ Running /\ pc = "cooldown"
    /\ \/ Set(afterClassify(Cur))
       \/ Set(analysisFailed([Cur EXCEPT !.glitch = TRUE]))
    /\ UNCHANGED <<config, range, analyzer, race, session, plan, fleet, summary, page>>

\* the 5 s pause after a failed analysis of every 10th ordinal
CooldownError ==
    /\ Running /\ pc = "cooldownError"
    /\ \/ Set(afterClassify(Cur))
       \/ Set(catchBlock([Cur EXCEPT !.glitch = TRUE]))
    /\ UNCHANGED <<config, range, analyzer, race, session, plan, fleet, summary, page>>

\* verifyNextQuestionExists(i) before advancing
AdvVerify ==
    /\ Running /\ pc = "advVerify"
    /\ \/ /\ MarkerExists(i + 1)
          /\ Set([Cur EXCEPT !.pc = "advNext"])
       \/ Set(finalReport([Cur EXCEPT !.glitch = @ \/ MarkerExists(i + 1)]))
    /\ UNCHANGED <<config, range, analyzer, race, session, plan, fleet, summary, page>>

\* mutant: without a working NEXT button the loop is left at once
AdvNext_NoFallback ==
    /\ Running /\ pc = "advNext"
    /\ \/ Set(loopNext(Cur))
       \/ Set(finalReport(Cur))
    /\ UNCHANGED <<config, range, analyzer, race, session, plan, fleet, summary, page>>

\* the NEXT button: found and clicked, or not found, or the click threw
AdvNext ==
    /\ Running /\ pc = "advNext"
    /\ \/ Set(loopNext(Cur))
       \/ Set([Cur EXCEPT !.pc = "advDirect"])
    /\ UNCHANGED <<config, range, analyzer, race, session, plan, fleet, summary, page>>

\* navigateToQuestion(i + 1) when the NEXT button did not work
AdvDirect ==
    /\ Running /\ pc = "advDirect"
    /\ \/ /\ MarkerExists(i + 1)
          /\ Set(loopNext(Cur))
       \/ Set(finalReport([Cur EXCEPT !.glitch = @ \/ MarkerExists(i + 1)]))
       \/ Set(catchBlock([Cur EXCEPT !.glitch = TRUE]))
    /\ UNCHANGED <<config, range, analyzer, race, session, plan, fleet, summary, page>>

\* the 5 s wait and the merge of the runners' reports (RUNNERS > 1)
MergeStep ==
    /\ Running /\ pc = "mergeWait"
    /\ \/ Set(finallyBlock([Cur EXCEPT !.pc = "finished"], "normal"))
       \/ Set(catchBlock(Cur))
    /\ UNCHANGED <<config, range, analyzer, race, session, plan, fleet, summary, page>>

\* onSIGINT / onSIGTERM (the two handlers have the same body):
\* generatePartialReport(); process.exit(0)
Signal ==
    /\ Running
    /\ Set([generatePartialReport(Cur) EXCEPT !.exit = "signal"])
    /\ UNCHANGED <<config, range, analyzer, race, session, plan, fleet, summary, page>>

Next ==
    \/ Setup
    \/ Detect
    \/ StartNav
    \/ Nav
    \/ NavVerify
    \/ SolveQuestion
    \/ Renav
    \/ Analyze
    \/ Cooldown
    \/ CooldownError
    \/ AdvVerify
    \/ AdvNext
    \/ AdvDirect
    \/ MergeStep
    \/ Signal

Spec == Init /\ [][Next]_vars

\* runs in which no signal arrives and every call of the page driver and of
\* the analyzer returns, throws or times out
TraversalNext ==
    \/ Setup
    \/ Detect
    \/ StartNav
    \/ Nav
    \/ NavVerify
    \/ SolveQuestion
    \/ Renav
    \/ Analyze
    \/ Cooldown
    \/ CooldownError
    \/ AdvVerify
    \/ AdvNext
    \/ AdvDirect

\* a single runner from Q29 to the detected total: the range holds Q30, after
\* which both rate-limit pauses are taken
TraversalInit ==
    /\ EngineInit
    /\ analyzer = NotCalled
    /\ race = NoRace
    /\ session = NoSession
    /\ plan = NoPlan
    /\ fleet = NoFleet
    /\ summary = NoSummary
    /\ page = NoPage
    /\ START_FROM = 29
    /\ K \in (START_FROM - 1)..(START_FROM + MaxSpan - 1)
    /\ END_TO = 0 /\ RUNNERS = 1 /\ RUNNER_ID = 1
    /\ skipAI = FALSE
    /\ apiKey = KeyValid

TraversalLive ==
    TraversalInit /\ [][TraversalNext]_vars /\ WF_vars(TraversalNext)

\* runs in which analyzeQuestionAndCode never settles: only the timer of the
\* race ends the await, and setTimeout fires
NextHanging ==
    \/ Setup
    \/ Detect
    \/ StartNav
    \/ Nav
    \/ NavVerify
    \/ SolveQuestion
    \/ Renav
    \/ AnalyzeTimeout
    \/ CooldownError
    \/ AdvVerify
    \/ AdvNext
    \/ AdvDirect
    \/ Signal

\* a single runner with a usable key and no requested end
HangingInit ==
    /\ EngineInit
    /\ analyzer = NotCalled
    /\ race = NoRace
    /\ session = NoSession
    /\ plan = NoPlan
    /\ fleet = NoFleet
    /\ summary = NoSummary
    /\ page = NoPage
    /\ START_FROM \in StartChoices
    /\ K \in (START_FROM - 1)..(START_FROM + MaxSpan - 1)
    /\ END_TO = 0 /\ RUNNERS = 1 /\ RUNNER_ID = 1
    /\ skipAI = FALSE
    /\ apiKey = KeyValid

HangingSpec ==
    HangingInit /\ [][NextHanging]_vars
         /\ WF_vars(AnalyzeTimeout) /\ WF_vars(CooldownError)

\* ------------------------------------------- a call of the analyzer alone
engine == <<pc, i, retryCount, results, report, reportWritten, reportGenerated,
            exit, endFlushes, summaries, attempts, prev, lastErr, glitch,
            sinceCooldown, config, range>>

\* ------------------ the race of the analysis against its 60 s timeout

\* mutant: the record takes the verdict of a call that settles after the race
lateResult_Delivered(rs, q, st) ==
    [k \in 1..Len(rs) |-> IF rs[k].q = q THEN [rs[k] EXCEPT !.gemini = st]
                                         ELSE rs[k]]

\* Promise.race has settled with the timeout: what analysisPromise resolves
\* to afterwards is read by nobody
lateResult(rs, q, st) == rs

\* a single runner with a usable key
RaceInit ==
    /\ EngineInit
    /\ analyzer = NotCalled
    /\ race = NoRace
    /\ session = NoSession
    /\ plan = NoPlan
    /\ fleet = NoFleet
    /\ summary = NoSummary
    /\ page = NoPage
    /\ START_FROM \in StartChoices
    /\ K \in (START_FROM - 1)..(START_FROM + MaxSpan - 1)
    /\ END_TO = 0 /\ RUNNERS = 1 /\ RUNNER_ID = 1
    /\ skipAI = FALSE
    /\ apiKey = KeyValid

\* the 60 s timeout rejects first: the catch block runs, and the call of
\* analyzeQuestionAndCode goes on with its attempts
RaceTimeout ==
    /\ Running /\ pc = "analyze"
    /\ Set(analysisFailed(Cur))
    /\ race' = [pending |-> race.pending \cup {i},
                timedOut |-> race.timedOut \cup {i}]
    /\ UNCHANGED <<config, range, analyzer, session, plan, fleet, summary, page>>

\* a call the test body no longer waits for returns its result
LateSettle ==
    /\ Running
    /\ \E q \in race.pending : \E st \in AnalysisStatuses :
        /\ results' = lateResult(results, q, st)
        /\ race' = [race EXCEPT !.pending = @ \ {q}]
    /\ UNCHANGED <<pc, i, retryCount, report, reportWritten, reportGenerated,
                   exit, endFlushes, summaries, attempts, prev, lastErr,
                   glitch, sinceCooldown, config, range, analyzer, session,
                   plan, fleet, summary, page>>

RaceNext ==
    \/ Setup
    \/ Detect
    \/ StartNav
    \/ Nav
    \/ NavVerify
    \/ SolveQuestion
    \/ Renav
    \/ AnalyzeSettles
    \/ RaceTimeout
    \/ LateSettle
    \/ Cooldown
    \/ CooldownError
    \/ AdvVerify
    \/ AdvNext
    \/ AdvDirect
    \/ Signal

RaceSpec == RaceInit /\ [][RaceNext]_vars

AnalyzerInit ==
    /\ EngineInit
    /\ analyzer = NotCalled
    /\ race = NoRace
    /\ session = NoSession
    /\ plan = NoPlan
    /\ fleet = NoFleet
    /\ summary = NoSummary
    /\ page = NoPage
    /\ START_FROM = 1 /\ K = 1 /\ END_TO = 0 /\ RUNNERS = 1 /\ RUNNER_ID = 1
    /\ skipAI = FALSE
    /\ apiKey \in ApiKeys

CallAnalyzer ==
    /\ analyzer.pc = "idle"
    /\ \E nm \in ModelCounts : analyzer' = startAnalysis(analyzer, nm)
    /\ UNCHANGED <<engine, race, session, plan, fleet, summary, page>>

CallFails ==
    /\ analyzer.pc = "call"
    /\ \E e \in ErrorMessages : analyzer' = onError(analyzer, e)
    /\ UNCHANGED <<engine, race, session, plan, fleet, summary, page>>

CallSucceeds ==
    /\ analyzer.pc = "call"
    /\ apiKey = KeyValid
    /\ \E n \in DOMAIN Digit : analyzer' = onSuccess(analyzer, n)
    /\ UNCHANGED <<engine, race, session, plan, fleet, summary, page>>

\* sleep(delay) is over: continue
Slept ==
    /\ analyzer.pc = "sleep"
    /\ analyzer' = nextAttempt(analyzer)
    /\ UNCHANGED <<engine, race, session, plan, fleet, summary, page>>

AnalyzerNext == CallAnalyzer \/ CallFails \/ CallSucceeds \/ Slept

AnalyzerSpec == AnalyzerInit /\ [][AnalyzerNext]_vars

\* every raced call settles within 45 s and every sleep ends
AnalyzerLive == AnalyzerSpec /\ WF_vars(AnalyzerNext)

\* ---------------------------------------- the throttling of a longer run
\* The classification section of the iterations Q(s)..Q(ThrottleLast) of one
\* run, without the page: each ordinal either gets no analysis (a sentinel
\* code) or one, which resolves or fails.
ThrottleLast == 31
ThrottleStarts == 1..15

ThrottleInit ==
    /\ pc = "solve"
    /\ i \in ThrottleStarts
    /\ retryCount = 0
    /\ results = <<>>
    /\ report = <<>>
    /\ reportWritten = FALSE
    /\ reportGenerated = FALSE
    /\ exit = "running"
    /\ endFlushes = {}
    /\ summaries = 0
    /\ attempts = 0
    /\ prev = "none"
    /\ lastErr = NoErr
    /\ glitch = FALSE
    /\ sinceCooldown = 0
    /\ analyzer = NotCalled
    /\ race = NoRace
    /\ session = NoSession
    /\ plan = NoPlan
    /\ fleet = NoFleet
    /\ summary = NoSummary
    /\ page = NoPage
    /\ START_FROM = i /\ K = DefaultTotal /\ END_TO = ThrottleLast
    /\ RUNNERS = 1 /\ RUNNER_ID = 1
    /\ skipAI = FALSE
    /\ apiKey = KeyValid
    /\ totalQuestions = DefaultTotal
    /\ effectiveStartFrom = i
    /\ effectiveEndTo = ThrottleLast

throttled == <<retryCount, results, report, reportWritten, reportGenerated,
               exit, endFlushes, summaries, attempts, prev, lastErr, glitch,
               config, range, analyzer, race, session, plan, fleet, summary,
               page>>

\* the record of i is not analysable: local verdict SKIPPED, next iteration
ThrottleNoCall ==
    /\ pc = "solve" /\ i <= effectiveEndTo
    /\ i' = i + 1
    /\ UNCHANGED <<pc, sinceCooldown, throttled>>

\* the analysis of the record of i is awaited
ThrottleCall ==
    /\ pc = "solve" /\ i <= effectiveEndTo
    /\ pc' = "analyze"
    /\ sinceCooldown' = sinceCooldown + 1
    /\ UNCHANGED <<i, throttled>>

\* it resolves; the 10 s pause if due; next iteration
ThrottleDone ==
    /\ pc = "analyze"
    /\ sinceCooldown' = IF pauseAfterDone(i, totalQuestions) THEN 0
                                                             ELSE sinceCooldown
    /\ pc' = "solve"
    /\ i' = i + 1
    /\ UNCHANGED throttled

\* it fails or times out; the 5 s pause if due; next iteration
ThrottleFailed ==
    /\ pc = "analyze"
    /\ sinceCooldown' = IF pauseAfterFailed(i) THEN 0 ELSE sinceCooldown
    /\ pc' = "solve"
    /\ i' = i + 1
    /\ UNCHANGED throttled

ThrottleNext == ThrottleNoCall \/ ThrottleCall \/ ThrottleDone \/ ThrottleFailed

ThrottleSpec == ThrottleInit /\ [][ThrottleNext]_vars

\* --------------------------------------------- the start-up of the runners
SessionInit ==
    /\ EngineInit
    /\ analyzer = NotCalled
    /\ race = NoRace
    /\ \E exists \in BOOLEAN : session = StartUp(exists)
    /\ plan = NoPlan
    /\ fleet = NoFleet
    /\ summary = NoSummary
    /\ page = NoPage
    /\ START_FROM = 1 /\ K = 1 /\ END_TO = 0
    /\ RUNNERS = SessionRunners /\ RUNNER_ID = 1
    /\ skipAI = FALSE
    /\ apiKey = KeyValid

Fixture ==
    /\ \E r \in Runners :
          session.pc[r] = "fixture" /\ session' = fixture(session, r)
    /\ UNCHANGED <<engine, analyzer, race, plan, fleet, summary, page>>

\* waitForSessionFile of the test body returned; its value is not used
SessionWait ==
    /\ \E r \in Runners :
          /\ session.pc[r] = "wait"
          /\ session' = [session EXCEPT !.pc[r] = "verify"]
    /\ UNCHANGED <<engine, analyzer, race, plan, fleet, summary, page>>

VerifyLogin ==
    /\ \E r \in Runners :
          /\ session.pc[r] = "verify"
          /\ \E isLoggedIn \in (IF session.loaded[r] THEN BOOLEAN ELSE {FALSE}) :
                session' = verifyLogin(session, r, isLoggedIn)
    /\ UNCHANGED <<engine, analyzer, race, plan, fleet, summary, page>>

\* waitForSessionFile of loginToApp returns: true once the file exists, false
\* after 5 minutes without it
LoginWait ==
    /\ \E r \in Runners :
          /\ session.pc[r] = "loginWait"
          /\ session' = afterLoginWait(session, r, session.file)
    /\ UNCHANGED <<engine, analyzer, race, plan, fleet, summary, page>>

Login ==
    /\ \E r \in Runners :
          /\ session.pc[r] = "login"
          /\ \E outcome \in LoginOutcomes :
                session' = login(session, r, outcome)
    /\ UNCHANGED <<engine, analyzer, race, plan, fleet, summary, page>>

\* page.goto or context.storageState throws: the runner's test fails
LoginThrows ==
    /\ \E r \in Runners :
          /\ session.pc[r] = "login"
          /\ session' = [session EXCEPT !.pc[r] = "failed"]
    /\ UNCHANGED <<engine, analyzer, race, plan, fleet, summary, page>>

SessionNext ==
    Fixture \/ SessionWait \/ VerifyLogin \/ LoginWait \/ Login \/ LoginThrows

SessionSpec == SessionInit /\ [][SessionNext]_vars

\* ------------------------------------- the ranges of the runners of one run
\* largest question count and largest runner count of the range model
MaxTotal == 5
MaxRunners == 3

\* every runner is started with the same START_FROM_QUESTION, END_TO_QUESTION
\* and RUNNERS, and detects the same K questions
RangeInit ==
    /\ EngineInit
    /\ analyzer = NotCalled
    /\ race = NoRace
    /\ session = NoSession
    /\ K \in 1..MaxTotal
    /\ START_FROM \in 1..2
    /\ END_TO \in 0..MaxTotal
    /\ RUNNERS \in 2..MaxRunners
    /\ RUNNER_ID = 1
    /\ skipAI = FALSE
    /\ apiKey = KeyValid
    /\ plan = [r \in 1..RUNNERS |-> NotPlanned]
    /\ fleet = NoFleet
    /\ summary = NoSummary
    /\ page = NoPage

\* runner id computes runnerStartFrom and runnerEndTo
RunnerRange ==
    /\ \E id \in DOMAIN plan :
          /\ ~plan[id].planned
          /\ plan' = [plan EXCEPT ![id] =
                         [planned |-> TRUE,
                          from    |-> runnerStartFrom(K, id),
                          to      |-> runnerEndTo(K, id)]]
    /\ UNCHANGED <<engine, analyzer, race, session, fleet, summary, page>>

RangeNext == RunnerRange

RangeSpec == RangeInit /\ [][RangeNext]_vars

\* ------------------------------------------ the runners of one run, merging
\* report<r>.xlsx is absent, or holds the rows of the last flush of runner r
NoFile == [exists |-> FALSE, rows |-> <<>>]
written(rows) == [exists |-> TRUE, rows |-> rows]

NotMerged == [done |-> FALSE, rows |-> <<>>, finished |-> {}]

\* allData.sort((a, b) => aNum - bNum) on the ordinals of the rows
RECURSIVE insertByOrdinal(_, _)
insertByOrdinal(sorted, n) ==
    IF sorted = <<>> THEN <<n>>
    ELSE IF n < Head(sorted) THEN <<n>> \o sorted
    ELSE <<Head(sorted)>> \o insertByOrdinal(Tail(sorted), n)

RECURSIVE sortByOrdinal(_)
sortByOrdinal(rows) ==
    IF rows = <<>> THEN <<>>
    ELSE insertByOrdinal(sortByOrdinal(Tail(rows)), Head(rows))

\* allData.push(...data) for report1.xlsx .. report<n>.xlsx
RECURSIVE readAll(_, _)
readAll(files, n) ==
    IF n = 0 THEN <<>> ELSE readAll(files, n - 1) \o files[n].rows

mergeReports(files) == sortByOrdinal(readAll(files, Len(files)))

\* the loop of runner r is over: final report, then the wait before the merge
finalReportOf(f, r) ==
    [f EXCEPT !.file[r] = written(f.results[r]), !.stage[r] = "mergeWait"]

\* one iteration of runner r: the record, the incremental flush, the advance
iterationOf(f, r, goesOn) ==
    LET g == [f EXCEPT !.results[r] = Append(@, f.next[r]),
                       !.file[r] = written(Append(f.results[r], f.next[r])),
                       !.next[r] = @ + 1]
    IN  IF goesOn /\ g.next[r] <= g.to[r] THEN g ELSE finalReportOf(g, r)

\* runner r after its 5 s wait
mergeStepOf(f, r) ==
    LET allReportsExist == \A q \in DOMAIN f.file : f.file[q].exists
        g == [f EXCEPT !.stage[r] = "done"]
    IN  IF allReportsExist
        THEN [g EXCEPT !.merged[r] =
                 [done     |-> TRUE,
                  rows     |-> mergeReports(f.file),
                  finished |-> {q \in DOMAIN f.stage : f.stage[q] # "loop"}]]
        ELSE g

FleetInit ==
    /\ EngineInit
    /\ analyzer = NotCalled
    /\ race = NoRace
    /\ session = NoSession
    /\ plan = NoPlan
    /\ START_FROM = 1 /\ END_TO = 0
    /\ RUNNERS \in 2..MaxRunners
    /\ K \in RUNNERS..(MaxSpan * RUNNERS)
    /\ RUNNER_ID = 1
    /\ skipAI = FALSE
    /\ apiKey = KeyValid
    /\ fleet = [stage   |-> [r \in 1..RUNNERS |-> "loop"],
                next    |-> [r \in 1..RUNNERS |-> runnerStartFrom(K, r)],
                to      |-> [r \in 1..RUNNERS |-> runnerEndTo(K, r)],
                results |-> [r \in 1..RUNNERS |-> <<>>],
                file    |-> [r \in 1..RUNNERS |-> NoFile],
                merged  |-> [r \in 1..RUNNERS |-> NotMerged]]
    /\ summary = NoSummary
    /\ page = NoPage

FleetIteration ==
    /\ \E r \in DOMAIN fleet.stage, goesOn \in BOOLEAN :
          /\ fleet.stage[r] = "loop" /\ fleet.next[r] <= fleet.to[r]
          /\ fleet' = iterationOf(fleet, r, goesOn)
    /\ UNCHANGED <<engine, analyzer, race, session, plan, summary, page>>

\* the range of runner r is empty: the loop body never runs
FleetNoQuestions ==
    /\ \E r \in DOMAIN fleet.stage :
          /\ fleet.stage[r] = "loop" /\ fleet.next[r] > fleet.to[r]
          /\ fleet' = finalReportOf(fleet, r)
    /\ UNCHANGED <<engine, analyzer, race, session, plan, summary, page>>

FleetMerge ==
    /\ \E r \in DOMAIN fleet.stage :
          /\ fleet.stage[r] = "mergeWait"
          /\ fleet' = mergeStepOf(fleet, r)
    /\ UNCHANGED <<engine, analyzer, race, session, plan, summary, page>>

FleetNext == FleetIteration \/ FleetNoQuestions \/ FleetMerge

FleetSpec == FleetInit /\ [][FleetNext]_vars

\* ------------------------------------------------ ReportGenerator.getSummary
\* longest ledger of the summary model
MaxLedger == 4

DecimalDigits == <<"0", "1", "2", "3", "4", "5", "6", "7", "8", "9">>

\* the decimal digits of a natural number
RECURSIVE decimal(_)
decimal(n) ==
    IF n < 10 THEN <<DecimalDigits[n + 1]>>
    ELSE decimal(n \div 10) \o <<DecimalDigits[(n % 10) + 1]>>

\* mutant: the quotient is cut after two decimals
toFixed2_Truncating(num, den) ==
    LET n == (100 * num) \div den
    IN  decimal(n \div 100) \o <<".">>
        \o <<DecimalDigits[((n \div 10) % 10) + 1]>>
        \o <<DecimalDigits[(n % 10) + 1]>>

\* (num / den).toFixed(2): the nearest multiple of 0.01, the larger of two
toFixed2(num, den) ==
    LET n == (2 * 100 * num + den) \div (2 * den)
    IN  decimal(n \div 100) \o <<".">>
        \o <<DecimalDigits[((n \div 10) % 10) + 1]>>
        \o <<DecimalDigits[(n % 10) + 1]>>

\* this.results.filter(r => r.status === st).length
RECURSIVE filterLength(_, _)
filterLength(rs, st) ==
    IF rs = <<>> THEN 0
    ELSE (IF Head(rs).status = st THEN 1 ELSE 0) + filterLength(Tail(rs), st)

getSummary(rs) ==
    LET total == Len(rs)
        passed == filterLength(rs, "PASSED")
    IN  [total       |-> total,
         passed      |-> passed,
         failed      |-> filterLength(rs, "FAILED"),
         skipped     |-> filterLength(rs, "SKIPPED"),
         successRate |-> IF total > 0 THEN toFixed2(passed * 100, total)
                         ELSE <<"0", ".", "0", "0">>]

\* a ledger of up to MaxLedger records of any status
SummaryInit ==
    /\ pc = "setup"
    /\ i = 0
    /\ retryCount = 0
    /\ \E n \in 0..MaxLedger : \E st \in [1..n -> Statuses] :
          results = [k \in 1..n |->
                        Result(k, st[k], CodeCaptured, NoErr, NoVerdict)]
    /\ report = <<>>
    /\ reportWritten = FALSE
    /\ reportGenerated = FALSE
    /\ exit = "running"
    /\ endFlushes = {}
    /\ summaries = 0
    /\ attempts = 0
    /\ prev = "none"
    /\ lastErr = NoErr
    /\ glitch = FALSE
    /\ sinceCooldown = 0
    /\ totalQuestions = 0
    /\ effectiveStartFrom = 0
    /\ effectiveEndTo = 0
    /\ analyzer = NotCalled
    /\ race = NoRace
    /\ session = NoSession
    /\ plan = NoPlan
    /\ fleet = NoFleet
    /\ summary = NoSummary
    /\ page = NoPage
    /\ START_FROM = 1 /\ K = 1 /\ END_TO = 0
    /\ RUNNERS = 1 /\ RUNNER_ID = 1
    /\ skipAI = FALSE
    /\ apiKey = KeyValid

GetSummary ==
    /\ summary' = getSummary(results)
    /\ UNCHANGED <<engine, analyzer, race, session, plan, fleet, page>>

SummaryNext == GetSummary

SummarySpec == SummaryInit /\ [][SummaryNext]_vars

\* ------------------------------- navigateToQuestion, verifyNextQuestionExists
\* texts of the buttons a page may show
ButtonTexts == {
    <<"Q", "1">>, <<"Q", "2">>, <<"Q", "2", "0">>, <<"Q", "1", "2">>,
    <<" ", "Q", "2", " ">>, <<"Q", "2", "a">>, <<"q", "2">>}

\* largest question number navigated to
MaxTarget == 2

\* String.prototype.trim, and the whitespace trimming of :text-is, :has-text
RECURSIVE trim(_)
trim(t) ==
    IF t = <<>> THEN t
    ELSE IF Head(t) = " " THEN trim(Tail(t))
    ELSE IF t[Len(t)] = " " THEN trim(SubSeq(t, 1, Len(t) - 1))
    ELSE t

\* `Q${questionNumber}`
questionText(n) == <<"Q">> \o decimal(n)

\* :has-text("..."): case-insensitive search for a substring
hasText(t, sub) == includes(toLowerCase(trim(t)), toLowerCase(sub))

\* locator.isVisible() of a strict locator: TRUE for one visible match, FALSE
\* for none; more than one match throws, and the caller goes on
isVisible(matches) == Cardinality(matches) = 1

\* the buttons navigateToQuestion may click; none: it returns false
navigateToQuestion(buttons, n) ==
    LET textIs == {b \in buttons : trim(b) = questionText(n)}
    IN  IF isVisible(textIs) THEN textIs
        ELSE {b \in buttons : trim(b) = questionText(n)}

\* TRUE from the first selector, from the third one, or from the scan of
\* all buttons; the second selector is not one Playwright knows
verifyNextQuestionExists(buttons, cur) ==
    LET next == questionText(cur + 1)
        textIs == {b \in buttons : trim(b) = next}
        hasNext == {b \in buttons :
                       /\ hasText(b, next)
                       /\ \A d \in 0..9 : ~hasText(b, next \o decimal(d))}
    IN  \/ isVisible(textIs)
        \/ isVisible(hasNext)
        \/ \E b \in buttons : trim(b) = next

\* a page with any of the buttons, all visible, and a question number
MarkerInit ==
    /\ EngineInit
    /\ analyzer = NotCalled
    /\ race = NoRace
    /\ session = NoSession
    /\ plan = NoPlan
    /\ fleet = NoFleet
    /\ summary = NoSummary
    /\ START_FROM = 1 /\ K = 1 /\ END_TO = 0
    /\ RUNNERS = 1 /\ RUNNER_ID = 1
    /\ skipAI = FALSE
    /\ apiKey = KeyValid
    /\ \E bs \in SUBSET ButtonTexts, n \in 1..MaxTarget :
          page = [buttons |-> bs, questionNumber |-> n, called |-> "none",
                  clicked |-> <<>>, returned |-> FALSE]

\* navigateToQuestion(page, questionNumber)
NavigateToQuestion ==
    /\ page.called = "none"
    /\ LET candidates == navigateToQuestion(page.buttons, page.questionNumber)
       IN  \/ /\ candidates = {}
              /\ page' = [page EXCEPT !.called = "navigateToQuestion"]
           \/ \E b \in candidates :
                 page' = [page EXCEPT !.called = "navigateToQuestion",
                                      !.clicked = b, !.returned = TRUE]
    /\ UNCHANGED <<engine, analyzer, race, session, plan, fleet, summary>>

\* verifyNextQuestionExists(page, questionNumber - 1)
VerifyNextQuestionExists ==
    /\ page.called = "none"
    /\ page' = [page EXCEPT
                   !.called = "verifyNextQuestionExists",
                   !.returned = verifyNextQuestionExists(
                                    page.buttons, page.questionNumber - 1)]
    /\ UNCHANGED <<engine, analyzer, race, session, plan, fleet, summary>>

MarkerNext == NavigateToQuestion \/ VerifyNextQuestionExists

MarkerSpec == MarkerInit /\ [][MarkerNext]_vars

\* ------------------------------------------------------------ solveQuestion
\* texts the result indicator may settle on
ResultTexts == {
    <<"C", "o", "n", "g", "r", "a", "t", "u", "l", "a", "t", "i", "o", "n",
      "s", "!">>,
    <<"C", "o", "r", "r", "e", "c", "t">>,
    <<"P", "a", "s", "s", "e", "d">>,
    <<"I", "n", "c", "o", "r", "r", "e", "c", "t">>,
    <<"I", "N", "C", "O", "R", "R", "E", "C", "T">>,
    <<"W", "r", "o", "n", "g", " ", "A", "n", "s", "w", "e", "r">>,
    <<"w", "r", "o", "n", "g", " ", "a", "n", "s", "w", "e", "r">>,
    <<"F", "a", "i", "l", "e", "d">>,
    <<"T", "i", "m", "e", " ", "l", "i", "m", "i", "t">>}

\* the text of the indicator while the platform is still grading
Processing == <<"P", "r", "o", "c", "e", "s", "s", "i", "n", "g", ".", ".",
  ".">>

\* texts the page may show outside the result indicator
OtherTexts == {
    <<>>,
    <<"W", "r", "i", "t", "e", " ", "t", "h", "e", " ", "c", "o", "r", "r",
      "e", "c", "t", " ", "r", "u", "l", "e">>,
    <<"W", "r", "o", "n", "g", " ", "A", "n", "s", "w", "e", "r">>}

maxAttempts == 15

\* numbers of consecutive reads of the indicator that say Processing
ProcessingReads == {0, 1, maxAttempts, maxAttempts + 1}

\* the keywords of the result detection
Keyword ==
    [congratulations |->
        <<"c", "o", "n", "g", "r", "a", "t", "u", "l", "a", "t", "i", "o",
          "n", "s">>,
     correct |->
        <<"c", "o", "r", "r", "e", "c", "t">>,
     passed |->
        <<"p", "a", "s", "s", "e", "d">>,
     wrongAnswer |->
        <<"w", "r", "o", "n", "g", " ", "a", "n", "s", "w", "e", "r">>,
     incorrect |->
        <<"i", "n", "c", "o", "r", "r", "e", "c", "t">>,
     failed |->
        <<"f", "a", "i", "l", "e", "d">>,
     processing |->
        <<"p", "r", "o", "c", "e", "s", "s", "i", "n", "g">>,
     congratulationsBang |->
        <<"c", "o", "n", "g", "r", "a", "t", "u", "l", "a", "t", "i", "o",
          "n", "s", "!">>]

\* the if-chain on lowerText of the primary result detection
gradeText(resultText) ==
    LET lowerText == toLowerCase(trim(resultText))
    IN  IF \/ includes(lowerText, Keyword.congratulations)
           \/ includes(lowerText, Keyword.correct)
           \/ includes(lowerText, Keyword.passed)
        THEN "PASSED"
        ELSE IF \/ includes(lowerText, Keyword.wrongAnswer)
                \/ includes(lowerText, Keyword.incorrect)
                \/ includes(lowerText, Keyword.failed)
        THEN "FAILED"
        ELSE "none"

\* what resultElement.textContent() returns at the read number k (from 0)
readIndicator(p, k) == IF k < p.processingReads THEN Processing ELSE p.settled

\* the while loop that waits for Processing to go away: the number of re-reads
\* made when it ends
RECURSIVE pollLoop(_, _)
pollLoop(p, tried) ==
    IF /\ tried < maxAttempts
       /\ includes(toLowerCase(trim(readIndicator(p, tried))),
                   Keyword.processing)
    THEN pollLoop(p, tried + 1)
    ELSE tried

\* the fallback methods: success selectors, failure selectors, body text
fallbackDetect(texts) ==
    LET lower == {toLowerCase(t) : t \in texts}
        success == \E t \in lower :
                      \/ includes(t, Keyword.congratulations)
                      \/ includes(t, Keyword.correct)
                      \/ includes(t, Keyword.passed)
        failure == \E t \in lower :
                      \/ includes(t, Keyword.wrongAnswer)
                      \/ includes(t, Keyword.incorrect)
                      \/ includes(t, Keyword.failed)
        bodyPassed == \E t \in lower :
                      \/ includes(t, Keyword.congratulationsBang)
                      \/ includes(t, Keyword.correct)
        bodyFailed == \E t \in lower :
                      \/ includes(t, Keyword.wrongAnswer)
                      \/ includes(t, Keyword.incorrect)
    IN  IF success THEN "PASSED"
        ELSE IF failure THEN "FAILED"
        ELSE IF bodyPassed THEN "PASSED"
        ELSE IF bodyFailed THEN "FAILED"
        ELSE "none"

\* solveQuestion on the page p: the record it adds to the ledger, and the
\* number of times the poll loop read the indicator again
solveQuestion(p) ==
    LET code == CASE p.files = "single"      -> CodeCaptured
                  [] p.files = "singleEmpty" -> CodeNotCaptured
                  [] p.files = "multi"       -> CodeCaptured
                  [] p.files = "multiEmpty"  -> CodeNotCapturedMulti
        extracted == IF p.files = "multiEmpty" THEN "SKIPPED" ELSE "FAILED"
        polls == IF p.indicator THEN pollLoop(p, 0) ELSE 0
        resultText == readIndicator(p, polls)
        primary == IF p.indicator THEN gradeText(resultText) ELSE "none"
        shown == {p.other} \cup (IF p.indicator THEN {resultText} ELSE {})
        fallback == IF primary # "none" THEN primary ELSE fallbackDetect(shown)
    IN  IF ~p.runButton
        THEN [status |-> "FAILED", code |-> code,
              err |-> "RUN button not found with any selector", polls |-> 0,
              extracted |-> extracted]
        ELSE [status |-> IF fallback # "none" THEN fallback ELSE "SKIPPED",
              code |-> code, err |-> NoErr, polls |-> polls,
              extracted |-> extracted]

\* a page in front of solveQuestion
SolveInit ==
    /\ EngineInit
    /\ analyzer = NotCalled
    /\ race = NoRace
    /\ session = NoSession
    /\ plan = NoPlan
    /\ fleet = NoFleet
    /\ summary = NoSummary
    /\ START_FROM = 1 /\ K = 1 /\ END_TO = 0
    /\ RUNNERS = 1 /\ RUNNER_ID = 1
    /\ skipAI = FALSE
    /\ apiKey = KeyValid
    /\ \E f \in {"single", "singleEmpty", "multi", "multiEmpty"},
          rb \in BOOLEAN, ind \in BOOLEAN, n \in ProcessingReads,
          st \in ResultTexts, ot \in OtherTexts :
          /\ ~ind => (n = 0 /\ st = <<"C", "o", "r", "r", "e", "c", "t">>)
          /\ page = [files |-> f, runButton |-> rb, indicator |-> ind,
                     processingReads |-> n, settled |-> st, other |-> ot,
                     solved |-> FALSE, result |-> <<>>]

RunSolveQuestion ==
    /\ ~page.solved
    /\ page' = [page EXCEPT !.solved = TRUE, !.result = solveQuestion(page)]
    /\ UNCHANGED <<engine, analyzer, race, session, plan, fleet, summary>>

SolveSpec == SolveInit /\ [][RunSolveQuestion]_vars

\* ------------------------------------- solveQuestion: the files of a question
MaxFiles == 2

\* button.textContent() of a file button
FileLabels ==
    {<<"a", ".", "j", "s">>, <<" ", "b", ".", "c", "s", "s", " ">>, <<" ", " ">>}

\* fileCode once the XPath and the fallback selectors have been tried
FileCodes == {<<"x", "=", "1">>, <<" ", "p", "{", "}", " ">>, <<>>, <<" ">>}

FileButtons == [label : FileLabels, code : FileCodes, clickThrows : BOOLEAN]

\* the body of the loop over the file buttons: what it pushes to codeFiles
extractFile(button) ==
    IF /\ trim(button.label) # <<>>
       /\ ~button.clickThrows
       /\ trim(button.code) # <<>>
    THEN <<[fileName |-> trim(button.label), code |-> trim(button.code)]>>
    ELSE <<>>

RECURSIVE extractFiles(_)
extractFiles(buttons) ==
    IF buttons = <<>> THEN <<>>
    ELSE extractFile(Head(buttons)) \o extractFiles(Tail(buttons))

\* `=== ${file.fileName} ===`
sectionMarker(fileName) ==
    <<"=", "=", "=", " ">> \o fileName \o <<" ", "=", "=", "=">>

\* codeFiles.map(file => `=== ${file.fileName} ===\n${file.code}`).join('\n\n')
RECURSIVE joinFiles(_)
joinFiles(codeFiles) ==
    LET file == Head(codeFiles)
        text == sectionMarker(file.fileName) \o <<"\n">> \o file.code
    IN  IF Len(codeFiles) = 1 THEN text
        ELSE text \o <<"\n", "\n">> \o joinFiles(Tail(codeFiles))

\* the hasMultipleFiles branch of solveQuestion
extractMultipleFiles(buttons) ==
    LET codeFiles == extractFiles(buttons) IN
    IF Len(codeFiles) > 0
    THEN [codeFiles |-> codeFiles, code |-> joinFiles(codeFiles),
          status |-> "FAILED"]
    ELSE [codeFiles |-> <<>>, code |-> <<CodeNotCapturedMulti>>,
          status |-> "SKIPPED"]

\* the Code cell of the sheet
codeValue(result) ==
    IF Len(result.codeFiles) > 1
    THEN <<"[">> \o decimal(Len(result.codeFiles))
            \o <<" ", "f", "i", "l", "e", "s", "]", " ">> \o result.code
    ELSE result.code

\* mutant: an empty editor value is stored as it is
orNotCaptured_Empty(extractedCode) == extractedCode

\* extractedCode || 'Code not captured'
orNotCaptured(extractedCode) ==
    IF extractedCode = <<>> THEN <<CodeNotCaptured>> ELSE extractedCode

\* what the fallback selectors read, in the order they are tried
FallbackReads ==
    {<<>>, <<<<" ">>>>, <<<<" ">>, <<"x", "=", "1">>>>, <<<<"x", "=", "1">>>>}

\* the loop over the fallback selectors: the first code that is not blank
RECURSIVE firstCode(_)
firstCode(reads) ==
    IF reads = <<>> THEN <<>>
    ELSE IF trim(Head(reads)) # <<>> THEN Head(reads)
    ELSE firstCode(Tail(reads))

\* the catch block of the extraction: fallback selectors, then the sentinel
extractionFallback(reads) ==
    [codeFiles |-> <<>>,
     code |-> IF firstCode(reads) # <<>> THEN firstCode(reads)
                                          ELSE <<CodeNotCaptured>>,
     status |-> "FAILED"]

\* the code extraction of solveQuestion
extractCode(p) ==
    IF Len(p.buttons) > 0
    THEN IF p.allThrows THEN extractionFallback(p.fallback)
                        ELSE extractMultipleFiles(p.buttons)
    ELSE IF p.primaryThrows THEN extractionFallback(p.fallback)
    ELSE [codeFiles |-> <<>>, code |-> orNotCaptured(p.primary),
          status |-> "FAILED"]

\* the RUN button step after the extraction: clicked, or the error caught at
\* the end of solveQuestion
runStep(p, extracted) ==
    IF p.runButton
    THEN [extracted EXCEPT !.run = TRUE]
    ELSE [extracted EXCEPT !.status = "FAILED",
                           !.err = "RUN button not found with any selector"]

\* a question in front of solveQuestion: its file buttons, its editor and its
\* RUN button
ExtractInit ==
    /\ EngineInit
    /\ analyzer = NotCalled
    /\ race = NoRace
    /\ session = NoSession
    /\ plan = NoPlan
    /\ fleet = NoFleet
    /\ summary = NoSummary
    /\ START_FROM = 1 /\ K = 1 /\ END_TO = 0
    /\ RUNNERS = 1 /\ RUNNER_ID = 1
    /\ skipAI = FALSE
    /\ apiKey = KeyValid
    /\ \E n \in 0..MaxFiles : \E buttons \in [1..n -> FileButtons] :
       \E allThrows \in BOOLEAN, primaryThrows \in BOOLEAN,
          primary \in FileCodes, reads \in FallbackReads, rb \in BOOLEAN :
          /\ allThrows => n > 0
          /\ primaryThrows => n = 0
          /\ (n > 0 \/ primaryThrows) => primary = <<>>
          /\ (~allThrows /\ ~primaryThrows) => reads = <<>>
          /\ page = [buttons |-> buttons, allThrows |-> allThrows,
                     primaryThrows |-> primaryThrows, primary |-> primary,
                     fallback |-> reads, runButton |-> rb,
                     extracted |-> FALSE, result |-> <<>>, cell |-> <<>>]

\* solveQuestion from the code extraction to the click on the RUN button
ExtractAndRun ==
    /\ ~page.extracted
    /\ LET code == extractCode(page)
           result == runStep(page, [codeFiles |-> code.codeFiles,
                                    code |-> code.code,
                                    status |-> code.status,
                                    run |-> FALSE, err |-> NoErr])
       IN  page' = [page EXCEPT !.extracted = TRUE, !.result = result,
                                !.cell = codeValue(result)]
    /\ UNCHANGED <<engine, analyzer, race, session, plan, fleet, summary>>

ExtractSpec == ExtractInit /\ [][ExtractAndRun]_vars

\* --------------------- the second test body: a checkpoint every 25 records
CheckpointEvery == 25

\* the highest marker of the page, as detectTotalQuestions finds it
VariantTotals == {24, 25, 26, 51}

\* what the page shows for every question of the run
VariantPages ==
    [resultText : {<<"C", "o", "n", "g", "r", "a", "t", "u", "l", "a",
                      "t", "i", "o", "n", "s", "!">>,
                   <<"W", "r", "o", "n", "g", " ", "A", "n", "s", "w",
                      "e", "r">>,
                   <<>>},
     code : {CodeCaptured, CodeNotCaptured},
     analysis : {"SUCCESS", "ERROR"}]

\* the status solveQuestion of the second test body gives to a result text
variantGrade(resultText) ==
    IF includes(toLowerCase(resultText),
                <<"c", "o", "n", "g", "r", "a", "t", "u", "l", "a",
                  "t", "i", "o", "n", "s">>)
    THEN "PASSED"
    ELSE IF includes(toLowerCase(resultText), <<"w", "r", "o", "n", "g">>)
    THEN "FAILED"
    ELSE "SKIPPED"

\* safeReport(label)
safeReport(m) ==
    IF Len(m.results) = 0 THEN m
    ELSE [generateExcelReport(m) EXCEPT !.summaries = @ + 1,
                                        !.reportGenerated = TRUE]

\* results.length % 25 === 0: the checkpoint report, then results = []
checkpoint(m) ==
    IF Len(m.results) % CheckpointEvery = 0
    THEN [safeReport(m) EXCEPT !.results = <<>>]
    ELSE m

VariantInit ==
    /\ EngineInit
    /\ analyzer = NotCalled
    /\ race = NoRace
    /\ session = NoSession
    /\ plan = NoPlan
    /\ fleet = NoFleet
    /\ summary = NoSummary
    /\ START_FROM \in {1, 2} /\ K \in VariantTotals /\ END_TO = 0
    /\ RUNNERS = 1 /\ RUNNER_ID = 1
    /\ skipAI = FALSE
    /\ apiKey = KeyValid
    /\ page \in VariantPages

\* the test body up to its loop: login, navigateToCodingQuestions,
\* detectTotalQuestions, navigateToQuestion(START_FROM)
VariantStart ==
    /\ Running /\ pc = "setup"
    /\ \/ /\ Set([Cur EXCEPT !.i = START_FROM,
                             !.pc = IF START_FROM <= K THEN "variantSolve"
                                                      ELSE "variantFinal"])
          /\ totalQuestions' = K
          /\ effectiveStartFrom' = START_FROM
          /\ effectiveEndTo' = K
       \/ /\ Set([Cur EXCEPT !.exit = "exception", !.glitch = TRUE])
          /\ UNCHANGED range
    /\ UNCHANGED <<config, analyzer, race, session, plan, fleet, summary, page>>

\* navigateToQuestion(i) and solveQuestion(page, i, reportGenerator)
VariantSolve ==
    /\ Running /\ pc = "variantSolve"
    /\ \/ Set([Cur EXCEPT
                 !.results = addResult(@, Result(i, variantGrade(page.resultText),
                                                 page.code, NoErr, NoVerdict)),
                 !.pc = "variantClassify"])
       \/ Set([Cur EXCEPT !.exit = "exception", !.glitch = TRUE])
    /\ UNCHANGED <<config, range, analyzer, race, session, plan, fleet, summary, page>>

\* the Gemini analysis, the cooldown, the checkpoint and i++
VariantClassify ==
    /\ Running /\ pc = "variantClassify"
    /\ LET verdict == IF Last(results).code # CodeNotCaptured
                      THEN page.analysis ELSE "SKIPPED"
           c == checkpoint([Cur EXCEPT !.results = SetLastVerdict(@, verdict)])
       IN  Set([c EXCEPT !.i = @ + 1,
                         !.pc = IF i + 1 <= totalQuestions
                                THEN "variantSolve" ELSE "variantFinal"])
    /\ UNCHANGED <<config, range, analyzer, race, session, plan, fleet, summary, page>>

\* safeReport('Final') after the loop
VariantFinal ==
    /\ Running /\ pc = "variantFinal"
    /\ Set([safeReport(Cur) EXCEPT !.pc = "finished", !.exit = "normal"])
    /\ UNCHANGED <<config, range, analyzer, race, session, plan, fleet, summary, page>>

\* the SIGINT handler of the second test body
VariantSignal ==
    /\ Running
    /\ Set([safeReport(Cur) EXCEPT !.exit = "signal"])
    /\ UNCHANGED <<config, range, analyzer, race, session, plan, fleet, summary, page>>

VariantNext ==
    \/ VariantStart
    \/ VariantSolve
    \/ VariantClassify
    \/ VariantFinal
    \/ VariantSignal

VariantSpec == VariantInit /\ [][VariantNext]_vars

\* ================================================================ claims
Ended == exit # "running"

Ordinals(rows) == [k \in 1..Len(rows) |-> rows[k].number]

Consecutive(from, n) == [k \in 1..n |-> from + k - 1]

\* ordinal i is in flight: from its navigation to the end of its classification
InFlightPcs ==
    {"nav", "navVerify", "solve", "renav", "analyze", "cooldown", "cooldownError"}

\* the awaits of the classification of ordinal i; its record is in the ledger
ClassifyPcs == {"analyze", "cooldown", "cooldownError"}

AdvancePcs == {"advVerify", "advNext", "advDirect"}

FlushedCurrentLedger ==
    reportWritten /\ report = Rows(results) /\ summaries >= 1

SignalFlushedInFlight ==
    exit = "signal" /\ "signal" \in endFlushes /\ pc \in InFlightPcs

\* C2 (as stated): a signal arriving while ordinal i is in flight flushes a
\* report with the rows of the ordinals before i and no row for i.
C2_NoRowForInFlight ==
    SignalFlushedInFlight =>
        Ordinals(report) = Consecutive(effectiveStartFrom, i - effectiveStartFrom)

\* C2 (amended): the report flushed by the signal handler holds the rows of
\* all ordinals before i; it holds a row for i exactly when the signal arrives
\* during i's classification or the pause that follows it, and that row has no
\* classifier verdict while the analysis is pending; during navigation, a solve
\* attempt or a retry's re-navigation it holds no row for i.
C2_RowOnlyWhileClassifying ==
    SignalFlushedInFlight =>
        /\ report = Rows(results)
        /\ IF pc \in ClassifyPcs
           THEN /\ Ordinals(report) =
                      Consecutive(effectiveStartFrom, i - effectiveStartFrom + 1)
                /\ pc = "analyze" => Last(report).gemini = ""
           ELSE Ordinals(report) =
                      Consecutive(effectiveStartFrom, i - effectiveStartFrom)

C2_Witness ==
    SignalFlushedInFlight /\ pc = "renav" /\ Len(report) >= 1

\* C3: among the normal-completion, exception-handler, finally and
\* signal-handler flushes, no execution performs two.
C3_AtMostOneEndFlush == Cardinality(endFlushes) <= 1

\* C4: the ledger's ordinals are strictly increasing in insertion order, the
\* first is the first ordinal of the run's range, and no ordinal repeats.
C4_StrictlyIncreasing ==
    /\ Len(results) > 0 => results[1].q = effectiveStartFrom
    /\ \A j, k \in 1..Len(results) : j < k => results[j].q < results[k].q

C4_Witness ==
    Len(results) = 2 /\ START_FROM = 29 /\ pc = "analyze" /\ attempts = 2

Contiguous ==
    /\ \A k \in 1..Len(results) : results[k].q = effectiveStartFrom + k - 1
    /\ Len(results) > 0 => Last(results).q <= effectiveEndTo

\* while ordinal i is worked on, every ordinal before it has its record
PredecessorsRecorded ==
    /\ pc \in InFlightPcs => Len(results) >= i - effectiveStartFrom
    /\ pc \in AdvancePcs => Len(results) = i - effectiveStartFrom + 1

\* C5 (as stated): the recorded ordinals are s..k, no ordinal is processed
\* before its predecessor is recorded, and once navigation to an ordinal has
\* failed the run stops instead of moving past it.
C5_StopsAtFailedNavigation ==
    /\ Contiguous
    /\ PredecessorsRecorded
    /\ \A k \in 1..Len(results) :
          results[k].code = NavigationFailed => pc \in {"finished", "mergeWait"}

NavRule ==
    /\ pc = "navVerify" /\ exit' # "signal" =>
          \/ /\ MarkerExists(i)
             /\ results' = Append(results, navFailedResult(i))
             /\ i' = i + 1
             /\ i' <= effectiveEndTo => pc' = "nav" /\ exit' = "running"
          \/ /\ results' = results
             /\ "final" \in endFlushes'
             /\ pc' \in {"finished", "mergeWait"}
    /\ pc = "advDirect" /\ exit' # "signal" =>
          \/ MarkerExists(i + 1) /\ i' = i + 1 /\ pc' = "nav"
          \/ /\ results' = results
             /\ "final" \in endFlushes'
             /\ pc' \in {"finished", "mergeWait"}
          \/ exit' = "exception"

\* C5 (amended): the recorded ordinals are s..k with k <= e and no ordinal is
\* processed before its predecessor is recorded.  When navigation fails at the
\* top of an iteration, the run ends with the final report if the marker is
\* absent; if the marker exists the ordinal is recorded as SKIPPED with code
\* 'Navigation failed' and the engine moves on to the next ordinal.  When the
\* direct navigation of the advancement step returns false the run ends.
C5_ContiguousSkipAndContinue ==
    [](Contiguous /\ PredecessorsRecorded) /\ [][NavRule]_vars

C5_Witness ==
    /\ exit = "running" /\ pc = "nav" /\ Len(results) > 0
    /\ Last(results).code = NavigationFailed
    /\ i = Last(results).q + 1

\* the page exposes Q1..QK, the run is a single runner's, starts at or below K
\* and is asked to go beyond K (or has no requested end); the page driver has
\* reported every existing marker and thrown nothing
C6_Pre ==
    /\ RUNNERS = 1
    /\ START_FROM <= K
    /\ END_TO = 0 \/ END_TO > K
    /\ ~glitch

\* C6: with markers Q1..QK only and s <= K < requested end, the run processes
\* s..K, its last record is for K, no solve attempt is made for K+1, and it
\* ends normally with the final report.
C6_EndsAtLastMarker ==
    C6_Pre =>
        /\ exit # "exception"
        /\ pc \in {"solve", "renav"} \cup ClassifyPcs => i <= K
        /\ \A k \in 1..Len(results) :
              results[k].q <= K /\ results[k].code # NavigationFailed
        /\ exit = "normal" =>
              /\ Ordinals(Rows(results)) = Consecutive(START_FROM, K - START_FROM + 1)
              /\ Last(results).q = K
              /\ "final" \in endFlushes
              /\ report = Rows(results)

C6_Witness ==
    /\ C6_Pre /\ exit = "normal" /\ END_TO > K
    /\ totalQuestions = DefaultTotal /\ Len(results) = 2

\* C7: solveQuestion is attempted at most 3 times per ordinal; a retry follows
\* only an attempt whose result carries an error message; navigateToQuestion
\* for the same ordinal runs between the failed attempt and the retry.
C7_BoundedRetries ==
    /\ attempts <= maxRetries + 1
    /\ pc = "renav" => prev = "error" /\ lastErr # NoErr
    /\ pc = "solve" /\ attempts > 0 => prev = "renav"

C7_Witness == attempts = maxRetries + 1 /\ lastErr = NoErr /\ pc = "analyze"

\* C8: when the third attempt on ordinal i raises too, the ledger holds exactly
\* one record for i, the last one, with outcome SKIPPED and an error detail
\* made of the retry notice followed by the last attempt's message; such a
\* record stays SKIPPED with a non-empty error detail.
ThirdAttemptRaised ==
    /\ pc = "solve" /\ exit' # "signal"
    /\ attempts' = maxRetries + 1 /\ lastErr' # NoErr

C8_ExhaustedIsSkipped ==
    /\ [][ThirdAttemptRaised =>
            LET recs == {k \in 1..Len(results') : results'[k].q = i}
            IN  /\ recs = {Len(results')}
                /\ Last(results').status = "SKIPPED"
                /\ Last(results').err # ""
                /\ Last(results').err =
                      "Failed after 2 retries due to: " \o lastErr']_vars
    /\ [](\A k \in 1..Len(results) :
            results[k].code = RetryExhausted =>
                results[k].status = "SKIPPED" /\ results[k].err \notin {"", NoErr})

C8_Witness ==
    /\ Len(results) > 0 /\ Last(results).code = RetryExhausted
    /\ attempts = maxRetries + 1 /\ lastErr = "Target closed"

AllCallsFailed ==
    /\ analyzer.pc = "returned" /\ hasKey
    /\ analyzer.failures = Len(analyzer.requests)

WithinBudget ==
    /\ analyzer.pc \in {"idle", "call", "sleep", "returned"}
    /\ Len(analyzer.requests) <= GeminiMaxRetries * analyzer.nModels
    /\ AllCallsFailed =>
          /\ analyzer.status = "ERROR"
          /\ analyzer.failures >= 1
          /\ includes(analyzer.remarks, analyzer.lastFailure)
          /\ analyzer.remarks =
                AnalysisFailed \o analyzer.lastFailure \o MayBeOverloaded

\* C9: whatever failures the external call meets, analyzeQuestionAndCode
\* returns; when every call failed the value has status ERROR and remarks
\* containing the last error's message; it raises nothing and makes at most
\* maxRetries x (number of models) external calls.
C9_FailuresEndInError == []WithinBudget /\ <>(analyzer.pc = "returned")

C9_Witness ==
    /\ AllCallsFailed /\ analyzer.nModels = 3
    /\ Len(analyzer.requests) = GeminiMaxRetries * analyzer.nModels
    /\ analyzer.lastFailure = InvalidKey

\* C10: a second or third attempt on a model is in flight only after a
\* transient failure: after a failure for which shouldRetry is false no
\* further attempt on that model follows.
C10_NonTransientNotRetried ==
    analyzer.pc = "call" /\ analyzer.attempt > 1 =>
        shouldRetry(analyzer.lastFailure)

\* the values of code that stand for source text that was not captured
SentinelCodes ==
    {CodeNotCaptured, CodeNotCapturedMulti, NavigationFailed, RetryExhausted}

\* C11: analyzeQuestionAndCode is never awaited for a record whose code is a
\* sentinel value; such a record gets the verdict SKIPPED without a call.
C11_SentinelNeverAnalysed ==
    /\ pc = "analyze" => Last(results).code \notin SentinelCodes
    /\ \A k \in 1..Len(results) :
          results[k].code \in SentinelCodes =>
              results[k].gemini \in {NoVerdict, "SKIPPED"}

\* C12: with a missing or invalid credential every call of
\* analyzeQuestionAndCode returns status SKIPPED and no external call is made.
C12_BadKeyAlwaysSkipped ==
    apiKey # KeyValid =>
        /\ analyzer.requests = <<>>
        /\ analyzer.pc = "returned" => analyzer.status = "SKIPPED"

\* the step that ends the await of the analysis of ordinal i
ClassifyingEnds == pc = "analyze" /\ vars' # vars /\ exit' # "signal"

\* C13: when analyzeQuestionAndCode never settles, the await of the analysis
\* ends with the wrapper timeout: the record of i gets the verdict ERROR, the
\* per-iteration flush writes it and the engine advances (after the 5 s pause
\* when i is a multiple of 10); while the classification of i is awaited the
\* step of the timer that ends it is enabled.
C13_TimeoutBoundsClassifying ==
    /\ [][ClassifyingEnds =>
            /\ exit' # "exception"
            /\ Last(results').q = i /\ Last(results').gemini = "ERROR"
            /\ \/ pc' = "cooldownError"
               \/ /\ report' = Rows(results')
                  /\ pc' \in {"advVerify", "finished"}]_vars
    /\ [][pc = "cooldownError" /\ exit' = "running" =>
            report' = Rows(results') /\ pc' = "advVerify"]_vars
    /\ [](pc \in ClassifyPcs /\ exit = "running" =>
            ENABLED (AnalyzeTimeout \/ CooldownError))

C13_Witness ==
    /\ pc = "advVerify" /\ exit = "running" /\ ~glitch
    /\ Last(results).code = CodeCaptured /\ Last(results).gemini = "ERROR"
    /\ report = Rows(results)

\* C14: no more than 15 analyses are awaited without a rate-limit pause in
\* between, whatever the start ordinal and the outcomes of the analyses.
C14_PauseEvery15Calls == sinceCooldown <= 15

OrdinalsOf(r) == plan[r].from .. plan[r].to

AllPlanned == plan # NoPlan /\ \A r \in DOMAIN plan : plan[r].planned

\* the requested range has at least one question for every runner
EnoughQuestions == runnerEndTo0(K) - START_FROM + 1 >= RUNNERS

\* the ranges are contiguous and pairwise disjoint and cover exactly
\* [START_FROM, min(END_TO, total)]
RangesCover ==
    /\ \A r \in DOMAIN plan : r + 1 \in DOMAIN plan =>
          plan[r + 1].from = plan[r].to + 1
    /\ \A r, q \in DOMAIN plan : r # q => OrdinalsOf(r) \cap OrdinalsOf(q) = {}
    /\ UNION {OrdinalsOf(r) : r \in DOMAIN plan} = START_FROM..runnerEndTo0(K)

\* C16: when every runner of a run of two or more runners has computed its
\* range from the same total, the ranges are contiguous, pairwise disjoint,
\* cover exactly [s, min(e, N)], and no runner has an empty or inverted range
C16_RangesPartitionNoneEmpty ==
    (AllPlanned /\ EnoughQuestions) =>
        /\ RangesCover
        /\ \A r \in DOMAIN plan : plan[r].from <= plan[r].to

\* the final ledgers of all runners, merged
allLedgers == mergeReports([r \in DOMAIN fleet.results |->
                               written(fleet.results[r])])

\* C17: a runner that has merged did so when every runner had written its
\* final report, and its merged report holds every runner's complete ledger,
\* ordered by ordinal
C17_MergeAfterAllFinished ==
    fleet # NoFleet =>
        \A r \in DOMAIN fleet.merged : fleet.merged[r].done =>
            /\ fleet.merged[r].finished = DOMAIN fleet.stage
            /\ fleet.merged[r].rows = allLedgers

WithStatus(st) == {k \in 1..Len(results) : results[k].status = st}

\* the number a string of decimal digits stands for
RECURSIVE digitsValue(_)
digitsValue(ds) ==
    IF ds = <<>> THEN 0
    ELSE 10 * digitsValue(SubSeq(ds, 1, Len(ds) - 1))
         + (CHOOSE d \in 0..9 : DecimalDigits[d + 1] = ds[Len(ds)])

\* the string is <digits>.<two digits>; its value in hundredths
Hundredths(str) ==
    100 * digitsValue(SubSeq(str, 1, Len(str) - 3))
    + digitsValue(SubSeq(str, Len(str) - 1, Len(str)))

Abs(x) == IF x < 0 THEN -x ELSE x

\* C19: the summary counts the records and the records of each outcome, the
\* three counts add up to the total, and the pass rate is 100*passed/total
\* rounded to two decimals, '0.00' for an empty ledger
C19_SummaryCounts ==
    summary # NoSummary =>
        /\ summary.total = Len(results)
        /\ summary.passed = Cardinality(WithStatus("PASSED"))
        /\ summary.failed = Cardinality(WithStatus("FAILED"))
        /\ summary.skipped = Cardinality(WithStatus("SKIPPED"))
        /\ summary.passed + summary.failed + summary.skipped = summary.total
        /\ Len(summary.successRate) >= 4
        /\ summary.successRate[Len(summary.successRate) - 2] = "."
        /\ IF summary.total = 0
           THEN summary.successRate = <<"0", ".", "0", "0">>
           ELSE 2 * Abs(Hundredths(summary.successRate) * summary.total
                        - 10000 * summary.passed) <= summary.total

\* two of three records passed: 66.67
C19_Witness ==
    /\ summary # NoSummary /\ summary.total = 3 /\ summary.passed = 2
    /\ summary.failed = 1
    /\ summary.successRate = <<"6", "6", ".", "6", "7">>

\* C20: generateExcelReport leaves the ledger as it is and, applied twice,
\* writes the same rows in the same order; an end-of-run flush of a ledger
\* that has not changed since the last flush leaves the report as it was
C20_FlushIdempotent ==
    /\ [](/\ generateExcelReport(Cur).results = results
          /\ generateExcelReport(generateExcelReport(Cur)).report
                = generateExcelReport(Cur).report)
    /\ [][(/\ reportWritten /\ report = Rows(results)
           /\ results' = results /\ summaries' # summaries)
          => report' = report]_vars

\* a signal arrived after the incremental save of the second record
C20_Witness ==
    /\ exit = "signal" /\ "signal" \in endFlushes
    /\ pc = "advVerify" /\ Len(results) = 2 /\ report = Rows(results)

\* C21: the classifier verdict of every ledger record that has one is one of
\* the six status keywords
C21_VerdictsAreKeywords ==
    LET VerdictKeywords == {"MATCH", "DOESNT_MATCH", "PARTIAL",
                            "NEEDS_REVIEW", "ERROR", "SKIPPED"}
    IN  \A k \in 1..Len(results) :
            results[k].gemini # NoVerdict =>
                results[k].gemini \in VerdictKeywords

\* C22: while a retry of ordinal i is pending or starting, the ledger holds
\* no record for i
C22_NoRecordWhenRetryStarts ==
    (pc = "renav" \/ (pc = "solve" /\ attempts > 0)) =>
        \A k \in 1..Len(results) : results[k].q # i

\* the second retry of an ordinal starts, its predecessor is recorded
C22_Witness ==
    /\ pc = "solve" /\ exit = "running" /\ attempts = 2 /\ retryCount = 2
    /\ Len(results) = 1 /\ results[1].q = i - 1

\* a step of the advancement that is neither a signal nor an exception
AdvanceStep(at) == pc = at /\ exit' \notin {"signal", "exception"}

\* the loop is left at i: final report, no new record
StopsAtI ==
    /\ i' = i /\ results' = results
    /\ pc' \in {"finished", "mergeWait"} /\ "final" \in endFlushes'
    /\ RUNNERS = 1 => exit' = "normal"

ProceedsToNext == i' = i + 1 /\ pc' = "nav" /\ results' = results

\* C23: after the record of i < e, a missing Q(i+1) ends the run after i; with
\* Q(i+1) detected the NEXT button is tried, which leads to i+1 or to
\* navigateToQuestion(i+1); when that fails the run stops at i, and after a
\* stop no further ordinal is processed
C23_AdvanceOrStop ==
    /\ [][AdvanceStep("advVerify") =>
            /\ i < effectiveEndTo
            /\ ~MarkerExists(i + 1) => StopsAtI
            /\ StopsAtI \/ (pc' = "advNext" /\ i' = i /\ results' = results)]_vars
    /\ [][AdvanceStep("advNext") =>
            ProceedsToNext \/ (pc' = "advDirect" /\ i' = i /\ results' = results)]_vars
    /\ [][AdvanceStep("advDirect") =>
            /\ ~MarkerExists(i + 1) => StopsAtI
            /\ ProceedsToNext \/ StopsAtI]_vars
    /\ [][(pc \in {"finished", "mergeWait"}) =>
            (i' = i /\ results' = results)]_vars

\* the run ended after the second record although its range went further
C23_Witness ==
    /\ pc = "finished" /\ exit = "normal" /\ i < effectiveEndTo
    /\ Len(results) = 2 /\ Last(results).q = i

\* the raced call of the attempt in flight failed in this step
CallFailed ==
    analyzer.pc = "call" /\ analyzer'.failures = analyzer.failures + 1

\* the number of external calls made on model mi
CallsOn(mi) ==
    Cardinality({k \in 1..Len(analyzer.requests) : analyzer.requests[k][1] = mi})

\* C24: a transient failure of attempt 1 or 2 on a model is followed by a sleep
\* of 2 s or 4 s and then by the next attempt on the same model; a call that
\* succeeds makes analyzeQuestionAndCode return that result; a success on
\* attempt k of the first model after transient failures comes with exactly
\* k - 1 sleeps; no model is called more than 3 times
C24_RetryWithBackoff ==
    /\ [][(CallFailed /\ shouldRetry(analyzer'.lastFailure)
           /\ analyzer.attempt < 3) =>
            /\ analyzer'.pc = "sleep"
            /\ analyzer'.sleeps =
                  Append(analyzer.sleeps,
                         IF analyzer.attempt = 1 THEN 2000 ELSE 4000)]_vars
    /\ [][(analyzer.pc = "sleep" /\ analyzer' # analyzer) =>
            /\ analyzer'.pc = "call"
            /\ analyzer'.attempt = analyzer.attempt + 1
            /\ analyzer'.modelIdx = analyzer.modelIdx
            /\ analyzer'.sleeps = analyzer.sleeps]_vars
    /\ [][(analyzer.pc = "call" /\ analyzer' # analyzer /\ ~CallFailed) =>
            /\ analyzer'.pc = "returned" /\ analyzer'.status = "SUCCESS"
            /\ analyzer'.sleeps = analyzer.sleeps]_vars
    /\ []((/\ analyzer.pc = "returned" /\ analyzer.status = "SUCCESS"
           /\ analyzer.modelIdx = 1
           /\ Len(analyzer.sleeps) = analyzer.failures) =>
             /\ analyzer.attempt = analyzer.failures + 1
             /\ analyzer.sleeps = SubSeq(<<2000, 4000>>, 1, analyzer.attempt - 1))
    /\ [](\A mi \in 1..3 : CallsOn(mi) <= 3)

\* two transient failures, then success on the third attempt
C24_Witness ==
    /\ analyzer.pc = "returned" /\ analyzer.status = "SUCCESS"
    /\ analyzer.modelIdx = 1 /\ analyzer.attempt = 3
    /\ analyzer.failures = 2 /\ analyzer.sleeps = <<2000, 4000>>

C27_ExactLabelOnly ==
    /\ (page # NoPage /\ page.called = "navigateToQuestion"
        /\ page.returned) =>
          trim(page.clicked) = questionText(page.questionNumber)
    /\ (page # NoPage /\ page.called = "verifyNextQuestionExists"
        /\ page.returned) =>
          \E b \in page.buttons : trim(b) = questionText(page.questionNumber)

\* solveQuestion returned after reading the text t off the result indicator
GradedOn(t) ==
    /\ page # NoPage /\ "solved" \in DOMAIN page /\ page.solved
    /\ page.runButton /\ page.indicator
    /\ page.processingReads <= maxAttempts /\ page.settled = t

\* the result text t carries one of the keywords ks, casing aside
Carries(t, ks) == \E k \in ks : includes(toLowerCase(trim(t)), k)

\* C28: for every terminal result text, the recorded status is FAILED when
\* the text carries wrong answer, incorrect or failed in any casing (so
\* Incorrect and Wrong Answer are never PASSED), PASSED when it carries
\* congratulations, correct or passed and no failure keyword, and SKIPPED
\* otherwise
C28_GradingByKeyword ==
    \A t \in ResultTexts : GradedOn(t) =>
        LET wrong == Carries(t, {Keyword.wrongAnswer, Keyword.incorrect,
                                 Keyword.failed})
            right == Carries(t, {Keyword.congratulations, Keyword.correct,
                                 Keyword.passed})
        IN  page.result.status = IF wrong THEN "FAILED"
                                 ELSE IF right THEN "PASSED"
                                 ELSE "SKIPPED"

\* C29: the indicator is read again at most 15 times, and a question whose
\* indicator still says Processing after the 15th re-read is SKIPPED
C29_BoundedPollThenSkipped ==
    (page # NoPage /\ "solved" \in DOMAIN page /\ page.solved
     /\ page.runButton /\ page.indicator) =>
        /\ page.result.polls <= 15
        /\ page.processingReads > 15 =>
              (page.result.polls = 15 /\ page.result.status = "SKIPPED")

\* C30: when the file buttons are there and no file yields code, the
\* recorded outcome is SKIPPED
C30_NoFileCodeIsSkipped ==
    (page # NoPage /\ "solved" \in DOMAIN page /\ page.solved
     /\ page.files = "multiEmpty") =>
        page.result.status = "SKIPPED"

\* the hasMultipleFiles branch has run over the buttons of the container
FilesExtracted ==
    page # NoPage /\ "buttons" \in DOMAIN page /\ page.extracted

\* C31: over a container of N >= 1 file buttons the extraction returns N
\* files in the order of the buttons, each named by the trimmed text of its
\* button, and the code field holds the marker === name === of every button
C31_OneFilePerButton ==
    (FilesExtracted /\ Len(page.buttons) >= 1) =>
        /\ Len(page.result.codeFiles) = Len(page.buttons)
        /\ \A k \in 1..Len(page.buttons) :
              /\ k <= Len(page.result.codeFiles)
              /\ page.result.codeFiles[k].fileName = trim(page.buttons[k].label)
              /\ includes(page.result.code,
                          sectionMarker(trim(page.buttons[k].label)))

\* every strategy of the code extraction failed on the page: no file button
\* yields code, or the editor reads empty, or it cannot be read and the
\* fallback selectors read nothing but blanks
ExtractionFailed ==
    IF Len(page.buttons) > 0
    THEN IF page.allThrows THEN firstCode(page.fallback) = <<>>
                           ELSE extractFiles(page.buttons) = <<>>
    ELSE IF page.primaryThrows THEN firstCode(page.fallback) = <<>>
                               ELSE page.primary = <<>>

\* C32: the record solveQuestion builds never has an empty code; when the
\* extraction failed the code is one of the two sentinels, no error is raised
\* for it, and the RUN button is clicked whenever the page has one
C32_CodeNeverEmpty ==
    FilesExtracted =>
        /\ page.result.code # <<>>
        /\ ExtractionFailed =>
              /\ page.result.code \in {<<CodeNotCaptured>>,
                                       <<CodeNotCapturedMulti>>}
              /\ page.result.run = page.runButton
              /\ page.result.err # NoErr => ~page.runButton

C32_Witness ==
    /\ FilesExtracted /\ ExtractionFailed
    /\ Len(page.buttons) = 0 /\ ~page.primaryThrows
    /\ page.result.code = <<CodeNotCaptured>> /\ page.result.run

\* every record but the last keeps its place in the ledger
OthersKept ==
    \A k \in 1..(Len(results) - 1) :
        k <= Len(results') /\ results'[k] = results[k]

\* the run ended normally and every ordinal it recorded is in the report
\* written last
AllInFinalReport ==
    exit = "normal" =>
        \A q \in effectiveStartFrom..(i - 1) :
            \E k \in 1..Len(report) : report[k].number = q

\* C33: a step of the run changes the ledger only by appending a record or
\* by removing or replacing its last record: the records before the last are
\* never removed, reordered or cleared; and every ordinal recorded during the
\* run is in the final report
C33_LedgerAppendOnly ==
    [][OthersKept /\ Len(results') <= Len(results) + 1]_vars
        /\ [](pc \in {"variantSolve", "variantClassify", "variantFinal",
                      "finished"} => AllInFinalReport)

\* the calls of analyzeQuestionAndCode that have not returned yet
InFlight == race.pending \cup (IF pc = "analyze" /\ Running THEN {i} ELSE {})

\* C34: while a call of analyzeQuestionAndCode made for an ordinal has not
\* returned, the loop variable still stands on that ordinal, and at most one
\* such call is outstanding
C34_OneQuestionAtATime ==
    Running =>
        /\ \A q \in InFlight : q = i
        /\ Cardinality(InFlight) <= 1

\* C37: the record of an ordinal whose analysis lost the race against the
\* timeout has the verdict ERROR from then on, and a call that returns after
\* the race changes no record of the ledger
C37_LateResultIgnored ==
    [][/\ \A k \in 1..Len(results') :
             results'[k].q \in race'.timedOut => results'[k].gemini = "ERROR"
       /\ (race'.pending # race.pending /\ race'.timedOut = race.timedOut)
             => results' = results]_vars

C37_Witness ==
    /\ Len(results) >= 1
    /\ results[1].q \in race.timedOut
    /\ results[1].q \notin race.pending
    /\ results[1].gemini = "ERROR"

\* C35: in the report file, whichever flush wrote it, every row with an error
\* detail has the outcome SKIPPED: no row is FAILED with an error detail
C35_ErrorRowsAreSkipped ==
    \A k \in 1..Len(report) :
        report[k].error # "" => report[k].status = "SKIPPED"

C35_Witness ==
    /\ reportWritten /\ exit = "signal"
    /\ \E k \in 1..Len(report) :
          report[k].error # "" /\ report[k].code = RetryExhausted

\* C36: the report a per-iteration flush or the final flush of a normal end
\* wrote has a classifier verdict in every row (while the run goes on, or
\* after it ended normally, these are the only flushes that have run)
C36_FlushedRecordsHaveVerdict ==
    exit \in {"running", "normal"} =>
        \A k \in 1..Len(report) : report[k].gemini # ""

C36_Witness ==
    /\ exit = "normal" /\ "final" \in endFlushes
    /\ Len(report) = 2
    /\ report[1].code = CodeNotCaptured /\ report[1].gemini = "SKIPPED"
    /\ report[2].gemini = "ERROR"

\* C38: a runner writes the session file only after it saw the login succeed:
\* no runner whose 180 s login wait ran out has written the file
C38_SessionSavedOnlyAfterLogin ==
    \A r \in Runners : r \in session.expired => r \notin session.wrote

\* the awaits inside the main loop
LoopPcs ==
    {"nav", "navVerify", "solve", "renav", "analyze", "cooldown",
     "cooldownError", "advVerify", "advNext", "advDirect"}

\* the final-report step has run, or the catch block or a failure before it
ReachedEnd == pc \in {"mergeWait", "finished"} \/ exit = "exception"

\* the place of an await in an iteration; a retry goes back from solve to
\* renav with one more attempt made
PcOrder ==
    [setup |-> 0, detect |-> 1, startNav |-> 2, nav |-> 3, navVerify |-> 4,
     renav |-> 5, solve |-> 6, analyze |-> 7, cooldown |-> 8,
     cooldownError |-> 9, advVerify |-> 10, advNext |-> 11, advDirect |-> 12,
     mergeWait |-> 13, finished |-> 14]

\* how far the run is: the ordinal, then the attempts made on it, then the
\* await within the attempt
Progress ==
    LET made == IF pc \in {"nav", "navVerify"} THEN 0 ELSE attempts
    IN  (i * (maxRetries + 2) + made) * 16 + PcOrder[pc]

\* C39: the loop stays on ordinals of the range, an iteration starts only on
\* the ordinal after the last one (so at most e-s+1 iterations), an ordinal
\* gets at most 3 solve attempts (so at most 3*(e-s+1) in all), every step
\* takes the run further or ends it, and a run that has not reached the
\* final-report step or the exception path can take a step: its steps being
\* taken, it reaches one of the two
C39_TraversalTerminates ==
    /\ [](pc \in LoopPcs =>
            /\ i \in effectiveStartFrom..effectiveEndTo
            /\ attempts <= maxRetries + 1)
    /\ [][/\ (pc \in LoopPcs /\ i' # i) => i' = i + 1
          /\ (pc \in LoopPcs \ {"nav"} /\ pc' = "nav") => i' = i + 1
          /\ (pc \in LoopPcs /\ attempts' > attempts) => attempts' = attempts + 1
          /\ ReachedEnd' \/ Progress' > Progress
         ]_vars
    /\ [](~ReachedEnd => ENABLED TraversalNext)

C39_Witness ==
    /\ pc = "finished" /\ exit = "normal"
    /\ i = effectiveEndTo + 1
    /\ Len(results) = effectiveEndTo - effectiveStartFrom + 1
    /\ Len(results) >= 2

\* verifyNextQuestionExists(i - 1) found no marker for i: the loop is left
NavStops == i' = i /\ results' = results /\ pc' \in {"mergeWait", "finished"}

\* the ordinal i is recorded as skipped and the loop goes on with i + 1
NavSkips ==
    /\ Len(results') = Len(results) + 1
    /\ SubSeq(results', 1, Len(results)) = results
    /\ Last(results').q = i
    /\ Last(results').status = "SKIPPED"
    /\ Last(results').code = NavigationFailed
    /\ Last(results').gemini = "SKIPPED"
    /\ \A k \in 1..Len(results) : results[k].q # i
    /\ attempts' = attempts /\ sinceCooldown' = sinceCooldown
    /\ i' = i + 1
    /\ pc' \in {"nav", "mergeWait", "finished"}

\* C40: after a failed navigateToQuestion(i), i > s, either the marker of i is
\* not found and the loop is left, or exactly one record for i is appended
\* (SKIPPED, 'Navigation failed', verdict SKIPPED), no solveQuestion call and
\* no analysis is made for i, and the loop goes on with i + 1 without the
\* advancement step
C40_NavigationFailureSkips ==
    [][(pc = "navVerify" /\ exit' # "signal") => (NavStops \/ NavSkips)]_vars

C40_Witness ==
    /\ pc = "nav" /\ Len(results) >= 2
    /\ Last(results).code = NavigationFailed
    /\ Last(results).q = i - 1
    /\ report = Rows(results)

====
